---------------------------- MODULE Spec2Model ----------------------------
(***************************************************************************)
(* In-memory inventory / order management API: the entity services        *)
(* (items, users, products, orders) of src/src/*.js and the earlier       *)
(* revisions kept in src/unnamed, and the request middleware of           *)
(* src/src/middleware/logging.middleware.js.                               *)
(*                                                                         *)
(* Every service is a module-level singleton that owns one array and one  *)
(* counter, and no service reads another service's state.  A behaviour of *)
(* this model therefore follows the calls made to ONE service: svc names  *)
(* it, and is chosen in Init.  One action is one synchronous call of a    *)
(* service method, run to completion (Node's single thread).               *)
(*                                                                         *)
(* JavaScript strings are sequences of one-character strings, so that     *)
(* trim() and toLowerCase() are computed and not assumed.                  *)
(***************************************************************************)
EXTENDS Integers, Sequences, FiniteSets, TLC

VARIABLES
    svc,            \* the service whose calls this behaviour follows
    now,            \* the wall clock read by new Date()
    last,           \* the most recent call and what it threw: [op, err, msg]
    items,          \* ItemsService.items: sequence of item objects
    itemsNextId,    \* ItemsService.nextId
    allocated,      \* history: number of item objects ever constructed
    maxAssigned,    \* history: largest id the service ever assigned
    idReused,       \* history: some create assigned an id <= an earlier one
    gone,           \* history: the ids whose delete call succeeded
    users,          \* UsersService.users
    usersNextId,    \* UsersService.nextId
    products,       \* ProductsService.products
    productsNextId, \* ProductsService.nextId
    orders,         \* OrdersService.orders
    ordersNextId,   \* OrdersService.nextId
    legacyItems,    \* ItemsService.items of the earliest revision
    reviews,        \* the array reviews of ReviewsService
    reviewsNextId,  \* nextId of ReviewsService
    held,           \* the array a caller got from the last list query
    res,            \* the response the last controller call sent
    result,         \* what the last call returned, when it was a bulk create or an import
    requestCounts,  \* logging.middleware: requestCounts, client IP -> {count, resetTime}
    circuitBreakers,\* logging.middleware: requestMetrics.circuitBreakers, endpoint -> breaker
    admittedAt,     \* history: per client IP, how many requests passed the limiter at each instant
    inRow,          \* history: per endpoint, the responses >= 500 in a row that the
                    \* handler or a stage behind the breaker sent (5 stands for 5 or more)
    openedAt,       \* history: per endpoint, when its breaker last went to open
    usedKeys        \* history: the idempotency keys earlier requests carried

itemVars == <<items, itemsNextId, allocated>>
histVars == <<maxAssigned, idReused, gone>>
userVars == <<users, usersNextId>>
productVars == <<products, productsNextId>>
orderVars == <<orders, ordersNextId>>
reviewVars == <<reviews, reviewsNextId>>
gateVars == <<requestCounts, circuitBreakers, admittedAt, inRow, openedAt, usedKeys>>
vars == <<svc, now, last, itemVars, histVars, userVars, productVars, orderVars,
          legacyItems, reviewVars, held, res, result, gateVars>>

---------------------------------------------------------------------------
(* Bounds of the model *)

\* records a service may construct in one behaviour (the two seeds included)
MaxAlloc == 3
\* longest list handed to a bulk / batch / import call, the scenarios apart
MaxBulk == 1
\* last clock value
MaxTime == 1
\* largest stock adjustStock may leave (the seed holds 15 units)
MaxUnits == 17

---------------------------------------------------------------------------
(* JavaScript values *)

Undefined == [t |-> "undefined"]
JStr(s) == [t |-> "string", s |-> s]
JNum(n) == [t |-> "number", n |-> n]
\* a string holding the decimal text of n, as Express hands over req.params.id
JNumStr(n) == [t |-> "numstr", n |-> n]
\* a string that is not numeric text, such as "abc"
JText == [t |-> "text"]
JNull == [t |-> "null"]
\* the number NaN handed on as an argument
JNaN == [t |-> "NaN"]
\* a string that is one of the words the model keeps as such, a status
JWord(w) == [t |-> "word", w |-> w]
\* an object without any of the fields the callee looks at
JObject == [t |-> "object"]
\* an array with the elements v
JArray(v) == [t |-> "array", v |-> v]

NaN == 0 - 1

\* !v
Falsy(v) ==
    \/ v.t \in {"undefined", "null", "NaN"}
    \/ v.t = "string" /\ v.s = <<>>
    \/ v.t = "number" /\ v.n = 0

\* typeof v === "string"
IsString(v) == v.t \in {"string", "numstr", "text"}

\* Array.isArray(v)
IsArray(v) == v.t = "array"

\* Number(v)
ToNumber(v) ==
    CASE v.t = "number" -> v.n
      [] v.t = "numstr" -> v.n
      [] v.t = "null" -> 0
      [] OTHER -> NaN

\* a === b for a stored number a and a JavaScript value b
StrictEqNum(a, b) == b.t = "number" /\ b.n = a

UpperCase == <<"A", "B", "C", "D", "E", "F", "G", "H", "I", "J", "K", "L", "M",
               "N", "O", "P", "Q", "R", "S", "T", "U", "V", "W", "X", "Y", "Z">>
LowerCase == <<"a", "b", "c", "d", "e", "f", "g", "h", "i", "j", "k", "l", "m",
               "n", "o", "p", "q", "r", "s", "t", "u", "v", "w", "x", "y", "z">>

\* the lower-case form of every character the model's strings use
LowerOf ==
    [c \in {UpperCase[i] : i \in 1..Len(UpperCase)} |->
        LowerCase[CHOOSE i \in 1..Len(UpperCase) : UpperCase[i] = c]]

LowerChar(c) == IF c \in DOMAIN LowerOf THEN LowerOf[c] ELSE c

\* String.prototype.toLowerCase
ToLowerCase(s) == [i \in 1..Len(s) |-> LowerChar(s[i])]

IsSpace(c) == c \in {" ", "\t"}

\* String.prototype.trimStart, trimEnd, trim
RECURSIVE TrimStart(_)
TrimStart(s) == IF s # <<>> /\ IsSpace(Head(s)) THEN TrimStart(Tail(s)) ELSE s

RECURSIVE TrimEnd(_)
TrimEnd(s) ==
    IF s # <<>> /\ IsSpace(s[Len(s)]) THEN TrimEnd(SubSeq(s, 1, Len(s) - 1)) ELSE s

Trim(s) == TrimEnd(TrimStart(s))

MaxOf(a, b) == IF a >= b THEN a ELSE b

\* F(x), with x evaluated once: const v = x; ... F(v)
Bind(x, F(_)) == CHOOSE y \in {F(v) : v \in {x}} : TRUE

\* Array.prototype.splice(index, 1)
RemoveAt(s, k) == [i \in 1..(Len(s) - 1) |-> IF i < k THEN s[i] ELSE s[i + 1]]

---------------------------------------------------------------------------
(* Errors *)

NoError == "none"
ValidationError == "ValidationError"
NotFoundError == "NotFoundError"
TypeError == "TypeError"
\* const error = new Error(...); error.statusCode = 400, or 404
Error400 == "Error, statusCode 400"
Error404 == "Error, statusCode 404"

\* err.statusCode || 500, as every controller computes it
StatusCode(err) ==
    CASE err \in {ValidationError, Error400} -> 400
      [] err \in {NotFoundError, Error404} -> 404
      [] OTHER -> 500

Failed(err, msg) == [err |-> err, msg |-> msg]
Ok == [err |-> NoError, msg |-> ""]

---------------------------------------------------------------------------
(* Literals of the source *)

FirstItem == <<"F", "i", "r", "s", "t", " ", "i", "t", "e", "m">>
AnotherItem == <<"A", "n", "o", "t", "h", "e", "r", " ", "i", "t", "e", "m">>

ItemNameMax == 100
ItemStatuses == {"active", "archived", "deleted"}

---------------------------------------------------------------------------
(* ItemsService (src/src/itemsService.js)                                  *)
(*                                                                         *)
(* Item objects are mutated in place and arrays hold references, so the    *)
(* methods work on a heap S:                                              *)
(*   S.objs   object identity (oid) -> the object's current fields        *)
(*   S.list   this.items, a sequence of oids                              *)
(*   S.nextId this.nextId                                                  *)
(*   S.alloc, S.hi, S.reused, S.gone   the history variables              *)

\* validateName(name): [err, msg, v], v the trimmed name
validateNameMax(name, max) ==
    IF Falsy(name) \/ name.t # "string"
    THEN [err |-> ValidationError, msg |-> "must be a non-empty string", v |-> <<>>]
    ELSE Bind(Trim(name.s), LAMBDA trimmed :
            IF Len(trimmed) = 0
            THEN [err |-> ValidationError, msg |-> "cannot be empty", v |-> <<>>]
            ELSE IF Len(trimmed) > max
            THEN [err |-> ValidationError, msg |-> "cannot exceed", v |-> <<>>]
            ELSE [err |-> NoError, msg |-> "", v |-> trimmed])

validateName(name) == validateNameMax(name, ItemNameMax)

\* the object at position k of this.items
At(S, k) == S.objs[S.list[k]]

\* this.items.findIndex((item) => item.id === n), 0 when absent
findIndex(S, n) ==
    Bind({k \in 1..Len(S.list) : At(S, k).id = n}, LAMBDA hits :
        IF hits = {} THEN 0 ELSE CHOOSE k \in hits : \A j \in hits : k <= j)

Fail(S, err, msg) == [S |-> S, err |-> err, msg |-> msg, id |-> 0, oid |-> 0]

\* faulty variant of getById: the search stops before the last item
getByIdBeforeLast(S, id) ==
    Bind(ToNumber(id), LAMBDA itemId :
        IF itemId = NaN
        THEN [err |-> ValidationError, msg |-> "Invalid id", k |-> 0]
        ELSE Bind(findIndex(S, itemId), LAMBDA k :
                IF k = 0 \/ k = Len(S.list)
                THEN [err |-> NotFoundError, msg |-> "not found", k |-> 0]
                ELSE [err |-> NoError, msg |-> "", k |-> k]))

\* getById(id): the position of the item, or the error thrown
getById(S, id) ==
    Bind(ToNumber(id), LAMBDA itemId :
        IF itemId = NaN
        THEN [err |-> ValidationError, msg |-> "Invalid id", k |-> 0]
        ELSE Bind(findIndex(S, itemId), LAMBDA k :
                IF k = 0
                THEN [err |-> NotFoundError, msg |-> "not found", k |-> 0]
                ELSE [err |-> NoError, msg |-> "", k |-> k]))

\* faulty variant of newItem: the id of the previous record is handed out again
newItemReusingLastId(S, name, t) ==
    [oid |-> S.alloc + 1, id |-> S.nextId - 1, name |-> name,
     createdAt |-> t, updatedAt |-> t, status |-> "active"]

\* the object create(name) constructs at clock value t
newItem(S, name, t) ==
    [oid |-> S.alloc + 1, id |-> S.nextId, name |-> name,
     createdAt |-> t, updatedAt |-> t, status |-> "active"]

\* this.items.push(item), with this.nextId++ and the history variables
pushItem(S, item) ==
    [objs |-> (item.oid :> item) @@ S.objs,
     list |-> Append(S.list, item.oid),
     nextId |-> S.nextId + 1,
     alloc |-> item.oid,
     hi |-> MaxOf(S.hi, item.id),
     reused |-> S.reused \/ item.id <= S.hi,
     gone |-> S.gone]

\* faulty variant of create: a rejected duplicate still consumes an id
createCountingAttempt(S, name, t) ==
    Bind(validateName(name), LAMBDA v :
        IF v.err # NoError THEN Fail(S, v.err, v.msg)
        ELSE IF \E k \in 1..Len(S.list) :
                    ToLowerCase(At(S, k).name) = ToLowerCase(v.v)
        THEN Fail([S EXCEPT !.nextId = S.nextId + 1], ValidationError, "already exists")
        ELSE Bind(newItem(S, v.v, t), LAMBDA item :
                [S |-> pushItem(S, item), err |-> NoError, msg |-> "",
                 id |-> item.id, oid |-> item.oid]))

\* create(name) at clock value t
create(S, name, t) ==
    Bind(validateName(name), LAMBDA v :
        IF v.err # NoError THEN Fail(S, v.err, v.msg)
        ELSE IF \E k \in 1..Len(S.list) :
                    ToLowerCase(At(S, k).name) = ToLowerCase(v.v)
        THEN Fail(S, ValidationError, "already exists")
        ELSE Bind(newItem(S, v.v, t), LAMBDA item :
                [S |-> pushItem(S, item), err |-> NoError, msg |-> "",
                 id |-> item.id, oid |-> item.oid]))

\* the name branch of update: lines 106-120
updateName(S, k, id, updates) ==
    IF "name" \notin DOMAIN updates THEN [S |-> S, err |-> NoError, msg |-> ""]
    ELSE Bind(validateName(updates.name), LAMBDA v :
            IF v.err # NoError THEN [S |-> S, err |-> v.err, msg |-> v.msg]
            ELSE IF \E j \in 1..Len(S.list) :
                        /\ ~StrictEqNum(At(S, j).id, id)
                        /\ ToLowerCase(At(S, j).name) = ToLowerCase(v.v)
            THEN [S |-> S, err |-> ValidationError, msg |-> "already exists"]
            ELSE [S |-> [S EXCEPT !.objs[S.list[k]].name = v.v],
                  err |-> NoError, msg |-> ""])

\* the status branch of update: lines 122-129
\* faulty variant of updateStatus: the status is stored without being checked
updateStatusUnchecked(S, k, updates) ==
    IF "status" \notin DOMAIN updates THEN [S |-> S, err |-> NoError, msg |-> ""]
    ELSE [S |-> [S EXCEPT !.objs[S.list[k]].status = updates.status],
          err |-> NoError, msg |-> ""]

updateStatus(S, k, updates) ==
    IF "status" \notin DOMAIN updates THEN [S |-> S, err |-> NoError, msg |-> ""]
    ELSE IF updates.status \notin ItemStatuses
    THEN [S |-> S, err |-> ValidationError, msg |-> "Invalid status"]
    ELSE [S |-> [S EXCEPT !.objs[S.list[k]].status = updates.status],
          err |-> NoError, msg |-> ""]

\* faulty variant of update: createdAt is stamped along with updatedAt
updateStampingCreatedAt(S, id, updates, t) ==
    Bind(getById(S, id), LAMBDA g :
        IF g.err # NoError THEN Fail(S, g.err, g.msg)
        ELSE Bind(updateName(S, g.k, id, updates), LAMBDA a :
            IF a.err # NoError THEN Fail(a.S, a.err, a.msg)
            ELSE Bind(updateStatus(a.S, g.k, updates), LAMBDA b :
                IF b.err # NoError THEN Fail(b.S, b.err, b.msg)
                ELSE [S |-> [b.S EXCEPT !.objs[b.S.list[g.k]].updatedAt = t,
                                        !.objs[b.S.list[g.k]].createdAt = t],
                      err |-> NoError, msg |-> "",
                      id |-> At(b.S, g.k).id, oid |-> b.S.list[g.k]])))

\* update(id, updates) at clock value t; a throw keeps what was assigned before it
update(S, id, updates, t) ==
    Bind(getById(S, id), LAMBDA g :
        IF g.err # NoError THEN Fail(S, g.err, g.msg)
        ELSE Bind(updateName(S, g.k, id, updates), LAMBDA a :
            IF a.err # NoError THEN Fail(a.S, a.err, a.msg)
            ELSE Bind(updateStatus(a.S, g.k, updates), LAMBDA b :
                IF b.err # NoError THEN Fail(b.S, b.err, b.msg)
                ELSE [S |-> [b.S EXCEPT !.objs[b.S.list[g.k]].updatedAt = t],
                      err |-> NoError, msg |-> "",
                      id |-> At(b.S, g.k).id, oid |-> b.S.list[g.k]])))

\* faulty variant of delete: the item is reported deleted and stays in the array
deleteWithoutSplice(S, id) ==
    Bind(ToNumber(id), LAMBDA itemId :
        IF itemId = NaN THEN Fail(S, ValidationError, "Invalid id")
        ELSE Bind(findIndex(S, itemId), LAMBDA index :
                IF index = 0 THEN Fail(S, NotFoundError, "not found")
                ELSE [S |-> [S EXCEPT !.gone = S.gone \cup {itemId}],
                      err |-> NoError, msg |-> "", id |-> itemId, oid |-> 0]))

\* delete(id)
delete(S, id) ==
    Bind(ToNumber(id), LAMBDA itemId :
        IF itemId = NaN THEN Fail(S, ValidationError, "Invalid id")
        ELSE Bind(findIndex(S, itemId), LAMBDA index :
                IF index = 0 THEN Fail(S, NotFoundError, "not found")
                ELSE [S |-> [S EXCEPT !.list = RemoveAt(S.list, index),
                                      !.gone = S.gone \cup {itemId}],
                      err |-> NoError, msg |-> "", id |-> itemId, oid |-> 0]))

BulkLimit == 100

\* what a bulk method returns or throws: the store, the error thrown (if any),
\* the input positions that succeeded and those reported in errors
BulkResult(S, err, msg, done, errors) ==
    [S |-> S, err |-> err, msg |-> msg, done |-> done, errors |-> errors]

\* faulty variant of bulkGuard: an empty array is let through
bulkGuardAllowingEmpty(list) ==
    IF ~IsArray(list)
    THEN Failed(ValidationError, "must be a non-empty array")
    ELSE IF Len(list.v) > BulkLimit
    THEN Failed(ValidationError, "more than 100")
    ELSE Ok

\* the array checks that open every bulk method
bulkGuard(list) ==
    IF ~IsArray(list) \/ Len(list.v) = 0
    THEN Failed(ValidationError, "must be a non-empty array")
    ELSE IF Len(list.v) > BulkLimit THEN Failed(ValidationError, "more than 100")
    ELSE Ok

RECURSIVE bulkCreateLoop(_, _, _, _, _, _)
bulkCreateLoop(S, names, i, t, done, errors) ==
    IF i > Len(names) THEN BulkResult(S, NoError, "", done, errors)
    ELSE Bind(create(S, names[i], t), LAMBDA r :
            IF r.err = NoError
            THEN bulkCreateLoop(r.S, names, i + 1, t, Append(done, i), errors)
            ELSE bulkCreateLoop(r.S, names, i + 1, t, done, Append(errors, i)))

\* bulkCreate(names)
bulkCreate(S, names, t) ==
    Bind(bulkGuard(names), LAMBDA g :
        IF g.err # NoError THEN BulkResult(S, g.err, g.msg, <<>>, <<>>)
        ELSE bulkCreateLoop(S, names.v, 1, t, <<>>, <<>>))

\* obj.f of a request object whose field may be missing
Field(obj, f) == IF f \in DOMAIN obj THEN obj[f] ELSE Undefined

\* obj is null or undefined: reading a property of it throws a TypeError
IsNullish(obj) == "t" \in DOMAIN obj /\ obj.t \in {"null", "undefined"}

RECURSIVE bulkUpdateLoop(_, _, _, _, _, _)
bulkUpdateLoop(S, updates, i, t, done, errors) ==
    IF i > Len(updates) THEN BulkResult(S, NoError, "", done, errors)
    ELSE IF IsNullish(updates[i])
    THEN BulkResult(S, TypeError, "Cannot read properties of null", done, errors)
    ELSE IF Falsy(Field(updates[i], "id"))
    THEN bulkUpdateLoop(S, updates, i + 1, t, done, Append(errors, i))
    ELSE Bind(update(S, updates[i].id, updates[i], t), LAMBDA r :
            IF r.err = NoError
            THEN bulkUpdateLoop(r.S, updates, i + 1, t, Append(done, i), errors)
            ELSE bulkUpdateLoop(r.S, updates, i + 1, t, done, Append(errors, i)))

\* bulkUpdate(updates)
bulkUpdate(S, updates, t) ==
    Bind(bulkGuard(updates), LAMBDA g :
        IF g.err # NoError THEN BulkResult(S, g.err, g.msg, <<>>, <<>>)
        ELSE bulkUpdateLoop(S, updates.v, 1, t, <<>>, <<>>))

RECURSIVE bulkDeleteLoop(_, _, _, _, _)
bulkDeleteLoop(S, ids, i, done, errors) ==
    IF i > Len(ids) THEN BulkResult(S, NoError, "", done, errors)
    ELSE Bind(delete(S, ids[i]), LAMBDA r :
            IF r.err = NoError
            THEN bulkDeleteLoop(r.S, ids, i + 1, Append(done, i), errors)
            ELSE bulkDeleteLoop(r.S, ids, i + 1, done, Append(errors, i)))

\* bulkDelete(ids)
bulkDelete(S, ids) ==
    Bind(bulkGuard(ids), LAMBDA g :
        IF g.err # NoError THEN BulkResult(S, g.err, g.msg, <<>>, <<>>)
        ELSE bulkDeleteLoop(S, ids.v, 1, <<>>, <<>>))

\* const snapshot = { items: [...this.items], nextId: this.nextId }:
\* a copy of the array of references, not of the objects
Snapshot(S) == [list |-> S.list, nextId |-> S.nextId]

\* this.items = snapshot.items; this.nextId = snapshot.nextId
Restore(S, snapshot) ==
    [S EXCEPT !.list = snapshot.list, !.nextId = snapshot.nextId]

\* this._rebuildIndexes(): ItemsService defines no such method, the call throws
rebuildIndexes == Failed(TypeError, "this._rebuildIndexes is not a function")

\* the rollback path of both transactional methods: the inner catch restores the
\* snapshot and calls _rebuildIndexes, whose throw reaches the outer catch, which
\* restores again and calls _rebuildIndexes again; that throw leaves the method
rollbackAndThrow(S, snapshot, done, i) ==
    BulkResult(Restore(Restore(S, snapshot), snapshot),
               rebuildIndexes.err, rebuildIndexes.msg, done, <<i>>)

RECURSIVE bulkCreateTxLoop(_, _, _, _, _, _, _, _)
bulkCreateTxLoop(S, names, i, t, rollback, snapshot, done, errors) ==
    IF i > Len(names) THEN BulkResult(S, NoError, "", done, errors)
    ELSE Bind(create(S, names[i], t), LAMBDA r :
            IF r.err = NoError
            THEN bulkCreateTxLoop(r.S, names, i + 1, t, rollback, snapshot,
                                  Append(done, i), errors)
            ELSE IF rollback
            THEN rollbackAndThrow(r.S, snapshot, done, i)
            ELSE bulkCreateTxLoop(r.S, names, i + 1, t, rollback, snapshot,
                                  done, Append(errors, i)))

\* faulty variant of bulkCreateTransactional: it rolls back whatever the option says
bulkCreateTransactionalAlways(S, names, rollbackOnError, t) ==
    Bind(bulkGuard(names), LAMBDA g :
        IF g.err # NoError THEN BulkResult(S, g.err, g.msg, <<>>, <<>>)
        ELSE Bind(Snapshot(S), LAMBDA snapshot :
                bulkCreateTxLoop(S, names.v, 1, t, TRUE, snapshot, <<>>, <<>>)))

\* bulkCreateTransactional(names, {rollbackOnError})
bulkCreateTransactional(S, names, rollbackOnError, t) ==
    Bind(bulkGuard(names), LAMBDA g :
        IF g.err # NoError THEN BulkResult(S, g.err, g.msg, <<>>, <<>>)
        ELSE Bind(Snapshot(S), LAMBDA snapshot :
                bulkCreateTxLoop(S, names.v, 1, t, rollbackOnError, snapshot,
                                 <<>>, <<>>)))

\* case "create" of batchOperations
batchCreate(S, data, t) ==
    IF Falsy(Field(data, "name"))
    THEN Fail(S, ValidationError, "Create operation requires 'name' in data")
    ELSE Bind(create(S, data.name, t), LAMBDA created :
            IF created.err # NoError \/ "status" \notin DOMAIN data THEN created
            ELSE Bind(update(created.S, JNum(created.id),
                             [status |-> data.status], t), LAMBDA u :
                    IF u.err # NoError THEN u
                    ELSE [u EXCEPT !.S.objs[created.oid].status = data.status]))

\* one operation of batchOperations: the switch of lines 598-629
batchOne(S, operation, t) ==
    CASE operation.type = "create" ->
            IF "data" \notin DOMAIN operation
            THEN Fail(S, ValidationError, "Create operation requires 'name' in data")
            ELSE batchCreate(S, operation.data, t)
      [] operation.type = "update" ->
            IF "data" \notin DOMAIN operation \/ Falsy(Field(operation.data, "id"))
            THEN Fail(S, ValidationError, "Update operation requires 'id' in data")
            ELSE update(S, operation.data.id, operation.data, t)
      [] operation.type = "delete" ->
            IF "data" \notin DOMAIN operation \/ Falsy(Field(operation.data, "id"))
            THEN Fail(S, ValidationError, "Delete operation requires 'id' in data")
            ELSE delete(S, operation.data.id)
      [] OTHER -> Fail(S, ValidationError, "Unknown operation type")

RECURSIVE batchLoop(_, _, _, _, _, _)
batchLoop(S, operations, i, t, snapshot, done) ==
    IF i > Len(operations) THEN BulkResult(S, NoError, "", done, <<>>)
    ELSE Bind(batchOne(S, operations[i], t), LAMBDA r :
            IF r.err = NoError
            THEN batchLoop(r.S, operations, i + 1, t, snapshot, Append(done, i))
            ELSE rollbackAndThrow(r.S, snapshot, done, i))

\* batchOperations(operations)
batchOperations(S, operations, t) ==
    Bind(bulkGuard(operations), LAMBDA g :
        IF g.err # NoError THEN BulkResult(S, g.err, g.msg, <<>>, <<>>)
        ELSE Bind(Snapshot(S), LAMBDA snapshot :
                batchLoop(S, operations.v, 1, t, snapshot, <<>>)))

\* this.indexes: no constructor or method of ItemsService assigns it
indexes == Undefined

\* the pre-validation loop of bulkUpdateWithValidation, lines 505-541: the
\* error thrown (if any) and the input positions reported in validationErrors
RECURSIVE preValidateLoop(_, _, _, _)
preValidateLoop(S, updates, i, errors) ==
    IF i > Len(updates) THEN Failed(NoError, "") @@ [errors |-> errors]
    ELSE IF IsNullish(updates[i])
    THEN Failed(TypeError, "Cannot read properties of null") @@ [errors |-> errors]
    ELSE IF Falsy(Field(updates[i], "id"))
    THEN preValidateLoop(S, updates, i + 1, Append(errors, i))
    ELSE IF IsNullish(indexes)
    THEN Failed(TypeError, "Cannot read properties of undefined (reading 'byId')")
            @@ [errors |-> errors]
    ELSE IF findIndex(S, ToNumber(updates[i].id)) = 0
    THEN preValidateLoop(S, updates, i + 1, Append(errors, i))
    ELSE IF "name" \in DOMAIN updates[i] /\ validateName(updates[i].name).err # NoError
    THEN preValidateLoop(S, updates, i + 1, Append(errors, i))
    \* this.validateStatus is not a function: the TypeError is caught at line 534
    ELSE IF "status" \in DOMAIN updates[i]
    THEN preValidateLoop(S, updates, i + 1, Append(errors, i))
    ELSE preValidateLoop(S, updates, i + 1, errors)

\* the execution loop of bulkUpdateWithValidation, lines 556-559: no try around update
RECURSIVE validatedUpdateLoop(_, _, _, _, _)
validatedUpdateLoop(S, updates, i, t, done) ==
    IF i > Len(updates) THEN BulkResult(S, NoError, "", done, <<>>)
    ELSE Bind(update(S, updates[i].id, updates[i], t), LAMBDA r :
            IF r.err # NoError THEN BulkResult(r.S, r.err, r.msg, done, <<>>)
            ELSE validatedUpdateLoop(r.S, updates, i + 1, t, Append(done, i)))

\* bulkUpdateWithValidation(updates)
bulkUpdateWithValidation(S, updates, t) ==
    Bind(bulkGuard(updates), LAMBDA g :
        IF g.err # NoError THEN BulkResult(S, g.err, g.msg, <<>>, <<>>)
        ELSE Bind(preValidateLoop(S, updates.v, 1, <<>>), LAMBDA v :
                IF v.err # NoError THEN BulkResult(S, v.err, v.msg, <<>>, v.errors)
                ELSE IF Len(v.errors) > 0 THEN BulkResult(S, NoError, "", <<>>, v.errors)
                ELSE validatedUpdateLoop(S, updates.v, 1, t, <<>>)))

(* ---- the revision of src/unnamed/part_007: importFromJSON ----          *)
(* Its constructor, validateName, getById, create, update and delete are   *)
(* line for line those of src/src/itemsService.js.  A JSON text is written *)
(* as the value it denotes, an array v of objects or something else; any  *)
(* other string is not JSON.                                               *)

ImportLimit == 1000

JSONText(isArray, v) == [t |-> "json", isArray |-> isArray, v |-> v]

\* exportToJSON(): JSON.stringify(this.items, null, 2), the text of an array
\* of plain objects with the fields of the items
exportToJSON(S) ==
    JSONText(TRUE, [i \in 1..Len(S.list) |->
                        [id |-> JNum(At(S, i).id), name |-> JStr(At(S, i).name),
                         createdAt |-> JNum(At(S, i).createdAt),
                         updatedAt |-> JNum(At(S, i).updatedAt),
                         status |-> At(S, i).status]])

\* faulty variant of importLoop: a name that exists already is reported as an
\* error and not as skipped
RECURSIVE importLoopSkipsAsErrors(_, _, _, _, _, _, _)
importLoopSkipsAsErrors(S, importedData, i, t, imported, errors, skipped) ==
    IF i > Len(importedData)
    THEN [S |-> S, err |-> NoError, msg |-> "",
          imported |-> imported, errors |-> errors, skipped |-> skipped]
    ELSE Bind(Field(importedData[i], "name"), LAMBDA name :
        IF Falsy(name) \/ name.t # "string"
        THEN importLoopSkipsAsErrors(S, importedData, i + 1, t, imported,
                                     Append(errors, i), skipped)
        ELSE IF \E j \in 1..Len(S.list) :
                    ToLowerCase(At(S, j).name) = ToLowerCase(name.s)
        THEN importLoopSkipsAsErrors(S, importedData, i + 1, t, imported,
                                     Append(errors, i), skipped)
        ELSE Bind(create(S, name, t), LAMBDA r :
            IF r.err # NoError
            THEN importLoopSkipsAsErrors(r.S, importedData, i + 1, t, imported,
                                         Append(errors, i), skipped)
            ELSE importLoopSkipsAsErrors(r.S, importedData, i + 1, t,
                                         Append(imported, r.id), errors, skipped)))

ImportResult(S, err, msg, imported, errors, skipped) ==
    [S |-> S, err |-> err, msg |-> msg,
     imported |-> imported, errors |-> errors, skipped |-> skipped]

\* created.status = item.status, when item.status is a valid status
importStatus(S, oid, item) ==
    IF "status" \in DOMAIN item /\ item.status \in ItemStatuses
    THEN [S EXCEPT !.objs[oid].status = item.status]
    ELSE S

RECURSIVE importLoop(_, _, _, _, _, _, _)
importLoop(S, importedData, i, t, imported, errors, skipped) ==
    IF i > Len(importedData)
    THEN ImportResult(S, NoError, "", imported, errors, skipped)
    ELSE Bind(Field(importedData[i], "name"), LAMBDA name :
        IF Falsy(name) \/ name.t # "string"
        THEN importLoop(S, importedData, i + 1, t, imported, Append(errors, i), skipped)
        ELSE IF \E j \in 1..Len(S.list) :
                    ToLowerCase(At(S, j).name) = ToLowerCase(name.s)
        THEN importLoop(S, importedData, i + 1, t, imported, errors, Append(skipped, i))
        ELSE Bind(create(S, name, t), LAMBDA r :
            IF r.err # NoError
            THEN importLoop(r.S, importedData, i + 1, t, imported, Append(errors, i), skipped)
            ELSE importLoop(importStatus(r.S, r.oid, importedData[i]), importedData,
                            i + 1, t, Append(imported, r.id), errors, skipped)))

\* importFromJSON(jsonData)
importFromJSON(S, jsonData, t) ==
    IF Falsy(jsonData) \/ ~(jsonData.t \in {"json", "text"})
    THEN ImportResult(S, ValidationError, "JSON data must be a non-empty string",
                      <<>>, <<>>, <<>>)
    ELSE IF jsonData.t # "json"
    THEN ImportResult(S, ValidationError, "Invalid JSON format", <<>>, <<>>, <<>>)
    ELSE IF ~jsonData.isArray
    THEN ImportResult(S, ValidationError, "JSON data must be an array of items",
                      <<>>, <<>>, <<>>)
    ELSE IF Len(jsonData.v) = 0
    THEN ImportResult(S, ValidationError, "Cannot import empty array", <<>>, <<>>, <<>>)
    ELSE IF Len(jsonData.v) > ImportLimit
    THEN ImportResult(S, ValidationError, "Cannot import more than 1000 items at once",
                      <<>>, <<>>, <<>>)
    ELSE importLoop(S, jsonData.v, 1, t, <<>>, <<>>, <<>>)

(* ---- the earliest revision, src/unnamed/part_008 lines 1-25 ----         *)
(* Records are {id, name}; there is no counter, no validation, no error.   *)

\* create(name): the id follows the id of the last record of the array
legacy_nextId(db) == IF Len(db) > 0 THEN db[Len(db)].id + 1 ELSE 1

legacy_create(db, name) == Append(db, [id |-> legacy_nextId(db), name |-> name])

\* delete(id): this.items.filter((item) => item.id !== id)
legacy_delete(db, id) == SelectSeq(db, LAMBDA item : ~StrictEqNum(item.id, id))

---------------------------------------------------------------------------
(* UsersService, ProductsService, OrdersService                            *)
(*                                                                         *)
(* These services have no method that keeps a second reference to a        *)
(* record, so their store is the sequence of the records' fields.         *)
(* A call returns [db, nextId, err, msg, id]: the array and counter it     *)
(* leaves, the error it threw and the id it returned.                      *)

\* db.findIndex((r) => r.id === n), 0 when absent
indexOfId(db, n) ==
    Bind({k \in 1..Len(db) : db[k].id = n}, LAMBDA hits :
        IF hits = {} THEN 0 ELSE CHOOSE k \in hits : \A j \in hits : k <= j)

Threw(db, nextId, err, msg) ==
    [db |-> db, nextId |-> nextId, err |-> err, msg |-> msg, id |-> 0]

Returned(db, nextId, id) ==
    [db |-> db, nextId |-> nextId, err |-> NoError, msg |-> "", id |-> id]

\* getById(id) of the three services: the position of the record, or the error
lookup(db, id) ==
    Bind(ToNumber(id), LAMBDA n :
        IF n = NaN
        THEN [err |-> ValidationError, msg |-> "Invalid id", k |-> 0]
        ELSE Bind(indexOfId(db, n), LAMBDA k :
                IF k = 0
                THEN [err |-> NotFoundError, msg |-> "not found", k |-> 0]
                ELSE [err |-> NoError, msg |-> "", k |-> k]))

\* delete(id) of the three services
remove(db, nextId, id) ==
    Bind(ToNumber(id), LAMBDA n :
        IF n = NaN THEN Threw(db, nextId, ValidationError, "Invalid id")
        ELSE Bind(indexOfId(db, n), LAMBDA index :
                IF index = 0 THEN Threw(db, nextId, NotFoundError, "not found")
                ELSE Returned(RemoveAt(db, index), nextId, n)))

\* one branch of an update method: the record it leaves and the error it threw
Kept(rec) == [rec |-> rec, err |-> NoError, msg |-> ""]
Thrown(rec, err, msg) == [rec |-> rec, err |-> err, msg |-> msg]

\* two branches in sequence: the second runs on what the first left, unless it threw
Then(first, second(_)) ==
    Bind(first, LAMBDA a : IF a.err # NoError THEN a ELSE second(a.rec))

(* ---- UsersService (src/src/usersService.js) ---- *)

UserNameMax == 100
UserRoles == {"user", "admin", "moderator"}
UserStatuses == {"active", "inactive", "suspended"}

JohnDoe == <<"J", "o", "h", "n", " ", "D", "o", "e">>
JaneSmith == <<"J", "a", "n", "e", " ", "S", "m", "i", "t", "h">>
JohnEmail == <<"j", "o", "h", "n", "@", "e", "x", "a", "m", "p", "l", "e", ".", "c", "o", "m">>
JaneEmail == <<"j", "a", "n", "e", "@", "e", "x", "a", "m", "p", "l", "e", ".", "c", "o", "m">>

users_validateName(name) == validateNameMax(name, UserNameMax)

\* /^[^\s@]+@[^\s@]+\.[^\s@]+$/.test(s)
emailRegex(s) ==
    \E a \in 1..Len(s), d \in 1..Len(s) :
        /\ s[a] = "@" /\ s[d] = "."
        /\ 1 < a /\ a + 1 < d /\ d < Len(s)
        /\ \A i \in 1..Len(s) : ~IsSpace(s[i]) /\ (i # a => s[i] # "@")

\* validateEmail(email): [err, msg, v], v the trimmed lower-case email
validateEmail(email) ==
    IF Falsy(email) \/ email.t # "string"
    THEN [err |-> ValidationError, msg |-> "Email must be a non-empty string", v |-> <<>>]
    ELSE Bind(ToLowerCase(Trim(email.s)), LAMBDA trimmed :
            IF ~emailRegex(trimmed)
            THEN [err |-> ValidationError, msg |-> "Invalid email format", v |-> <<>>]
            ELSE [err |-> NoError, msg |-> "", v |-> trimmed])

\* create(data)
users_create(db, nextId, data, t) ==
    Bind(users_validateName(Field(data, "name")), LAMBDA name :
    IF name.err # NoError THEN Threw(db, nextId, name.err, name.msg)
    ELSE Bind(validateEmail(Field(data, "email")), LAMBDA email :
    IF email.err # NoError THEN Threw(db, nextId, email.err, email.msg)
    ELSE Bind(IF "role" \in DOMAIN data THEN data.role ELSE "user", LAMBDA role :
    IF \E k \in 1..Len(db) : ToLowerCase(db[k].email) = ToLowerCase(email.v)
    THEN Threw(db, nextId, ValidationError, "already exists")
    ELSE IF role \notin UserRoles
    THEN Threw(db, nextId, ValidationError, "Invalid role")
    ELSE Returned(Append(db, [id |-> nextId, name |-> name.v, email |-> email.v,
                              role |-> role, createdAt |-> t, updatedAt |-> t,
                              status |-> "active"]),
                  nextId + 1, nextId))))

users_updateName(user, updates) ==
    IF "name" \notin DOMAIN updates THEN Kept(user)
    ELSE Bind(users_validateName(updates.name), LAMBDA v :
            IF v.err # NoError THEN Thrown(user, v.err, v.msg)
            ELSE Kept([user EXCEPT !.name = v.v]))

users_updateEmail(db, user, id, updates) ==
    IF "email" \notin DOMAIN updates THEN Kept(user)
    ELSE Bind(validateEmail(updates.email), LAMBDA v :
            IF v.err # NoError THEN Thrown(user, v.err, v.msg)
            ELSE IF \E k \in 1..Len(db) :
                        /\ ~StrictEqNum(db[k].id, id)
                        /\ ToLowerCase(db[k].email) = ToLowerCase(v.v)
            THEN Thrown(user, ValidationError, "already exists")
            ELSE Kept([user EXCEPT !.email = v.v]))

users_updateRole(user, updates) ==
    IF "role" \notin DOMAIN updates THEN Kept(user)
    ELSE IF updates.role \notin UserRoles
    THEN Thrown(user, ValidationError, "Invalid role")
    ELSE Kept([user EXCEPT !.role = updates.role])

users_updateStatus(user, updates) ==
    IF "status" \notin DOMAIN updates THEN Kept(user)
    ELSE IF updates.status \notin UserStatuses
    THEN Thrown(user, ValidationError, "Invalid status")
    ELSE Kept([user EXCEPT !.status = updates.status])

\* update(id, updates): the record is changed in place, branch after branch
users_update(db, nextId, id, updates, t) ==
    Bind(lookup(db, id), LAMBDA g :
    IF g.err # NoError THEN Threw(db, nextId, g.err, g.msg)
    ELSE Bind(Then(Then(Then(users_updateName(db[g.k], updates),
                             LAMBDA u : users_updateEmail(db, u, id, updates)),
                        LAMBDA u : users_updateRole(u, updates)),
                   LAMBDA u : users_updateStatus(u, updates)), LAMBDA r :
            IF r.err # NoError
            THEN Threw([db EXCEPT ![g.k] = r.rec], nextId, r.err, r.msg)
            ELSE Returned([db EXCEPT ![g.k] = [r.rec EXCEPT !.updatedAt = t]],
                          nextId, r.rec.id)))

users_delete(db, nextId, id) == remove(db, nextId, id)

(* ---- decimal numbers of ProductsService and OrdersService ----          *)
(* A price is a JavaScript number with decimals.  The model writes such a  *)
(* number in thousandths: JDec(1005) is 1.005.  Number() of a payload      *)
(* value is [nan, m], m in thousandths; decimal arithmetic is exact here.  *)

JDec(m) == [t |-> "decimal", m |-> m]

Thousand == 10 * 10 * 10

\* Number(v)
NumberOf(v) ==
    CASE v.t = "number" -> [nan |-> FALSE, m |-> v.n * Thousand]
      [] v.t = "numstr" -> [nan |-> FALSE, m |-> v.n * Thousand]
      [] v.t = "decimal" -> [nan |-> FALSE, m |-> v.m]
      [] v.t = "null" -> [nan |-> FALSE, m |-> 0]
      [] OTHER -> [nan |-> TRUE, m |-> 0]

\* Number.isInteger(x)
IsInteger(x) == ~x.nan /\ x.m % Thousand = 0

\* Math.round(m * 100) / 100 for m >= 0, in thousandths
RoundCents(m) == ((m + 5) \div 10) * 10

(* ---- ProductsService (src/src/productsService.js) ---- *)

ProductNameMax == 200
ProductStatuses == {"active", "inactive", "discontinued"}

Laptop == <<"L", "a", "p", "t", "o", "p">>
CoffeeMaker == <<"C", "o", "f", "f", "e", "e", " ", "M", "a", "k", "e", "r">>
Electronics == <<"E", "l", "e", "c", "t", "r", "o", "n", "i", "c", "s">>
Appliances == <<"A", "p", "p", "l", "i", "a", "n", "c", "e", "s">>
Uncategorized == <<"U", "n", "c", "a", "t", "e", "g", "o", "r", "i", "z", "e", "d">>

products_validateName(name) == validateNameMax(name, ProductNameMax)

\* validatePrice(price): [err, msg, v], v the price rounded to cents
validatePrice(price) ==
    Bind(NumberOf(price), LAMBDA priceNum :
        IF priceNum.nan \/ priceNum.m < 0
        THEN [err |-> ValidationError, msg |-> "Price must be a positive number", v |-> 0]
        ELSE [err |-> NoError, msg |-> "", v |-> RoundCents(priceNum.m)])

\* validateStock(stock): [err, msg, v], v the number of units
validateStock(stock) ==
    Bind(NumberOf(stock), LAMBDA stockNum :
        IF stockNum.nan \/ stockNum.m < 0 \/ ~IsInteger(stockNum)
        THEN [err |-> ValidationError, msg |-> "Stock must be a non-negative integer", v |-> 0]
        ELSE [err |-> NoError, msg |-> "", v |-> stockNum.m \div Thousand])

\* create(data)
products_create(db, nextId, data, t) ==
    Bind(products_validateName(Field(data, "name")), LAMBDA name :
    IF name.err # NoError THEN Threw(db, nextId, name.err, name.msg)
    ELSE Bind(validatePrice(Field(data, "price")), LAMBDA price :
    IF price.err # NoError THEN Threw(db, nextId, price.err, price.msg)
    ELSE Bind(IF "category" \in DOMAIN data /\ data.category # <<>>
              THEN data.category ELSE Uncategorized, LAMBDA category :
    Bind(IF "stock" \in DOMAIN data THEN validateStock(data.stock)
         ELSE [err |-> NoError, msg |-> "", v |-> 0], LAMBDA stock :
    IF stock.err # NoError THEN Threw(db, nextId, stock.err, stock.msg)
    ELSE IF \E k \in 1..Len(db) : ToLowerCase(db[k].name) = ToLowerCase(name.v)
    THEN Threw(db, nextId, ValidationError, "already exists")
    ELSE Returned(Append(db, [id |-> nextId, name |-> name.v, price |-> price.v,
                              category |-> Trim(category), stock |-> stock.v,
                              createdAt |-> t, updatedAt |-> t, status |-> "active"]),
                  nextId + 1, nextId)))))

products_updateName(db, product, id, updates) ==
    IF "name" \notin DOMAIN updates THEN Kept(product)
    ELSE Bind(products_validateName(updates.name), LAMBDA v :
            IF v.err # NoError THEN Thrown(product, v.err, v.msg)
            ELSE IF \E k \in 1..Len(db) :
                        /\ ~StrictEqNum(db[k].id, id)
                        /\ ToLowerCase(db[k].name) = ToLowerCase(v.v)
            THEN Thrown(product, ValidationError, "already exists")
            ELSE Kept([product EXCEPT !.name = v.v]))

products_updatePrice(product, updates) ==
    IF "price" \notin DOMAIN updates THEN Kept(product)
    ELSE Bind(validatePrice(updates.price), LAMBDA v :
            IF v.err # NoError THEN Thrown(product, v.err, v.msg)
            ELSE Kept([product EXCEPT !.price = v.v]))

products_updateCategory(product, updates) ==
    IF "category" \notin DOMAIN updates THEN Kept(product)
    ELSE Kept([product EXCEPT !.category = Trim(updates.category)])

products_updateStock(product, updates) ==
    IF "stock" \notin DOMAIN updates THEN Kept(product)
    ELSE Bind(validateStock(updates.stock), LAMBDA v :
            IF v.err # NoError THEN Thrown(product, v.err, v.msg)
            ELSE Kept([product EXCEPT !.stock = v.v]))

products_updateStatus(product, updates) ==
    IF "status" \notin DOMAIN updates THEN Kept(product)
    ELSE IF updates.status \notin ProductStatuses
    THEN Thrown(product, ValidationError, "Invalid status")
    ELSE Kept([product EXCEPT !.status = updates.status])

\* update(id, updates)
products_update(db, nextId, id, updates, t) ==
    Bind(lookup(db, id), LAMBDA g :
    IF g.err # NoError THEN Threw(db, nextId, g.err, g.msg)
    ELSE Bind(Then(Then(Then(Then(products_updateName(db, db[g.k], id, updates),
                                  LAMBDA q : products_updatePrice(q, updates)),
                             LAMBDA q : products_updateCategory(q, updates)),
                        LAMBDA q : products_updateStock(q, updates)),
                   LAMBDA q : products_updateStatus(q, updates)), LAMBDA r :
            IF r.err # NoError
            THEN Threw([db EXCEPT ![g.k] = r.rec], nextId, r.err, r.msg)
            ELSE Returned([db EXCEPT ![g.k] = [r.rec EXCEPT !.updatedAt = t]],
                          nextId, r.rec.id)))

products_delete(db, nextId, id) == remove(db, nextId, id)

(* ---- OrdersService (src/src/ordersService.js) ---- *)

CustomerNameMax == 100
OrderStatuses == {"pending", "processing", "shipped", "completed", "cancelled"}

AliceJohnson == <<"A", "l", "i", "c", "e", " ", "J", "o", "h", "n", "s", "o", "n">>
BobSmith == <<"B", "o", "b", " ", "S", "m", "i", "t", "h">>

validateCustomerName(name) == validateNameMax(name, CustomerNameMax)

\* validateQuantity(quantity): [err, msg, v], v the number of units
validateQuantity(quantity) ==
    Bind(NumberOf(quantity), LAMBDA qty :
        IF qty.nan \/ qty.m < Thousand \/ ~IsInteger(qty)
        THEN [err |-> ValidationError, msg |-> "Quantity must be a positive integer", v |-> 0]
        ELSE [err |-> NoError, msg |-> "", v |-> qty.m \div Thousand])

\* Math.round(order.price * quantity * 100) / 100; NaN when the order has no price
totalOf(order, quantity) ==
    IF "price" \in DOMAIN order THEN RoundCents(order.price * quantity) ELSE NaN

\* create(data)
orders_create(db, nextId, data, t) ==
    Bind(validateCustomerName(Field(data, "customerName")), LAMBDA customerName :
    IF customerName.err # NoError
    THEN Threw(db, nextId, customerName.err, customerName.msg)
    ELSE Bind(NumberOf(Field(data, "productId")), LAMBDA productId :
    Bind(validateQuantity(Field(data, "quantity")), LAMBDA quantity :
    IF quantity.err # NoError THEN Threw(db, nextId, quantity.err, quantity.msg)
    ELSE Bind(NumberOf(Field(data, "price")), LAMBDA price :
    IF productId.nan \/ productId.m < Thousand
    THEN Threw(db, nextId, ValidationError, "Valid productId is required")
    ELSE IF price.nan \/ price.m < 0
    THEN Threw(db, nextId, ValidationError, "Valid price is required")
    ELSE Returned(Append(db, [id |-> nextId, customerName |-> customerName.v,
                              productId |-> productId.m, quantity |-> quantity.v,
                              price |-> price.m,
                              total |-> RoundCents(price.m * quantity.v),
                              status |-> "pending",
                              createdAt |-> t, updatedAt |-> t]),
                  nextId + 1, nextId)))))

orders_updateCustomerName(order, updates) ==
    IF "customerName" \notin DOMAIN updates THEN Kept(order)
    ELSE Bind(validateCustomerName(updates.customerName), LAMBDA v :
            IF v.err # NoError THEN Thrown(order, v.err, v.msg)
            ELSE Kept([order EXCEPT !.customerName = v.v]))

orders_updateQuantity(order, updates) ==
    IF "quantity" \notin DOMAIN updates THEN Kept(order)
    ELSE Bind(validateQuantity(updates.quantity), LAMBDA v :
            IF v.err # NoError THEN Thrown(order, v.err, v.msg)
            ELSE Kept([order EXCEPT !.quantity = v.v, !.total = totalOf(order, v.v)]))

\* faulty variant of orders_updateStatus: a status change also clears the total
orders_updateStatusClearingTotal(order, updates) ==
    IF "status" \notin DOMAIN updates THEN Kept(order)
    ELSE IF updates.status \notin OrderStatuses
    THEN Thrown(order, ValidationError, "Invalid status")
    ELSE Kept([order EXCEPT !.status = updates.status, !.total = 0])

orders_updateStatus(order, updates) ==
    IF "status" \notin DOMAIN updates THEN Kept(order)
    ELSE IF updates.status \notin OrderStatuses
    THEN Thrown(order, ValidationError, "Invalid status")
    ELSE Kept([order EXCEPT !.status = updates.status])

\* update(id, updates)
orders_update(db, nextId, id, updates, t) ==
    Bind(lookup(db, id), LAMBDA g :
    IF g.err # NoError THEN Threw(db, nextId, g.err, g.msg)
    ELSE Bind(Then(Then(orders_updateCustomerName(db[g.k], updates),
                        LAMBDA o : orders_updateQuantity(o, updates)),
                   LAMBDA o : orders_updateStatus(o, updates)), LAMBDA r :
            IF r.err # NoError
            THEN Threw([db EXCEPT ![g.k] = r.rec], nextId, r.err, r.msg)
            ELSE Returned([db EXCEPT ![g.k] = [r.rec EXCEPT !.updatedAt = t]],
                          nextId, r.rec.id)))

orders_delete(db, nextId, id) == remove(db, nextId, id)

(* ---- the revision of src/unnamed/part_006: adjustStock ----             *)

MaxStock == 1000000

\* validateStock(stock) of this revision, for a number of units
rev006_validateStock(stockNum) ==
    IF stockNum.nan \/ stockNum.m < 0 \/ ~IsInteger(stockNum)
    THEN [err |-> ValidationError, msg |-> "Stock must be a non-negative integer", v |-> 0]
    ELSE IF stockNum.m > MaxStock * Thousand
    THEN [err |-> ValidationError, msg |-> "Stock cannot exceed", v |-> 0]
    ELSE [err |-> NoError, msg |-> "", v |-> stockNum.m \div Thousand]

\* adjustStock(productId, quantity) at clock value t
adjustStock(db, nextId, productId, quantity, t) ==
    Bind(lookup(db, productId), LAMBDA g :
    IF g.err # NoError THEN Threw(db, nextId, g.err, g.msg)
    ELSE Bind(NumberOf(quantity), LAMBDA adjustment :
    IF adjustment.nan
    THEN Threw(db, nextId, ValidationError, "Quantity must be a valid number")
    ELSE Bind(db[g.k].stock * Thousand + adjustment.m, LAMBDA newStock :
    IF newStock < 0
    THEN Threw(db, nextId, ValidationError, "Cannot adjust stock below 0")
    ELSE Bind(rev006_validateStock([nan |-> FALSE, m |-> newStock]), LAMBDA v :
    IF v.err # NoError THEN Threw(db, nextId, v.err, v.msg)
    ELSE Returned([db EXCEPT ![g.k].stock = v.v, ![g.k].updatedAt = t],
                  nextId, db[g.k].id)))))

(* ---- ReviewsService (src/unnamed/part_009 lines 19-117) ----            *)
(* The store is the module-level array reviews, empty at start; errors are *)
(* plain Error objects that carry a statusCode.                            *)

\* v < n and v > n, as JavaScript compares a payload value with a number
LessThan(v, n) == ~NumberOf(v).nan /\ NumberOf(v).m < n * Thousand
GreaterThan(v, n) == ~NumberOf(v).nan /\ NumberOf(v).m > n * Thousand

\* Number(v) as stored in a review: whole units, NaN when v is not numeric
StoredNumber(v) == IF NumberOf(v).nan THEN NaN ELSE NumberOf(v).m \div Thousand

\* getById(id): the position of the review, or the error thrown
reviews_getById(db, id) ==
    Bind(indexOfId(db, ToNumber(id)), LAMBDA k :
        IF k = 0
        THEN [err |-> Error404, msg |-> "Review not found", k |-> 0]
        ELSE [err |-> NoError, msg |-> "", k |-> k])

\* create(reviewData)
reviews_create(db, nextId, reviewData, t) ==
    Bind(Field(reviewData, "rating"), LAMBDA rating :
    IF \/ Falsy(Field(reviewData, "productId"))
       \/ Falsy(Field(reviewData, "userId"))
       \/ Falsy(rating)
    THEN Threw(db, nextId, Error400, "Product ID, User ID, and rating are required")
    ELSE IF LessThan(rating, 1) \/ GreaterThan(rating, 5)
    THEN Threw(db, nextId, Error400, "Rating must be between 1 and 5")
    ELSE Returned(Append(db, [id |-> nextId,
                              productId |-> StoredNumber(reviewData.productId),
                              userId |-> StoredNumber(reviewData.userId),
                              rating |-> StoredNumber(rating),
                              comment |-> IF Falsy(Field(reviewData, "comment"))
                                          THEN <<>> ELSE reviewData.comment.s,
                              createdAt |-> t]),
                  nextId + 1, nextId))

\* review.f = v, f a field the review may not have yet
SetField(review, f, v) == (f :> v) @@ review

\* update(id, updates)
reviews_update(db, nextId, id, updates, t) ==
    Bind(reviews_getById(db, id), LAMBDA g :
    IF g.err # NoError THEN Threw(db, nextId, g.err, g.msg)
    ELSE IF /\ "rating" \in DOMAIN updates
            /\ (LessThan(updates.rating, 1) \/ GreaterThan(updates.rating, 5))
    THEN Threw(db, nextId, Error400, "Rating must be between 1 and 5")
    ELSE Bind(IF "rating" \in DOMAIN updates
              THEN SetField(db[g.k], "rating", StoredNumber(updates.rating))
              ELSE db[g.k], LAMBDA a :
         Bind(IF "comment" \in DOMAIN updates
              THEN SetField(a, "comment", updates.comment.s)
              ELSE a, LAMBDA b :
         Returned([db EXCEPT ![g.k] = SetField(b, "updatedAt", t)], nextId, b.id))))

\* delete(id): returns nothing
reviews_delete(db, nextId, id) ==
    Bind(indexOfId(db, ToNumber(id)), LAMBDA index :
        IF index = 0 THEN Threw(db, nextId, Error404, "Review not found")
        ELSE Returned(RemoveAt(db, index), nextId, 0))

(* ---- the revision of src/unnamed/part_006: stock keeping ----           *)
(* A product may carry reservedStock (a number) and reorderSettings (an    *)
(* object with reorderPoint); a product that never had them lacks the field. *)

\* create(data) of this revision
rev006_create(db, nextId, data, t) ==
    Bind(products_validateName(Field(data, "name")), LAMBDA name :
    IF name.err # NoError THEN Threw(db, nextId, name.err, name.msg)
    ELSE Bind(validatePrice(Field(data, "price")), LAMBDA price :
    IF price.err # NoError THEN Threw(db, nextId, price.err, price.msg)
    ELSE Bind(IF "category" \in DOMAIN data /\ data.category # <<>>
              THEN data.category ELSE Uncategorized, LAMBDA category :
    Bind(IF "stock" \in DOMAIN data THEN rev006_validateStock(NumberOf(data.stock))
         ELSE [err |-> NoError, msg |-> "", v |-> 0], LAMBDA stock :
    IF stock.err # NoError THEN Threw(db, nextId, stock.err, stock.msg)
    ELSE IF \E k \in 1..Len(db) : ToLowerCase(db[k].name) = ToLowerCase(name.v)
    THEN Threw(db, nextId, ValidationError, "already exists")
    ELSE Returned(Append(db, [id |-> nextId, name |-> name.v, price |-> price.v,
                              category |-> Trim(category), stock |-> stock.v,
                              createdAt |-> t, updatedAt |-> t, status |-> "active"]),
                  nextId + 1, nextId)))))

rev006_updateStock(product, updates) ==
    IF "stock" \notin DOMAIN updates THEN Kept(product)
    ELSE Bind(rev006_validateStock(NumberOf(updates.stock)), LAMBDA v :
            IF v.err # NoError THEN Thrown(product, v.err, v.msg)
            ELSE Kept([product EXCEPT !.stock = v.v]))

\* update(id, updates) of this revision
rev006_update(db, nextId, id, updates, t) ==
    Bind(lookup(db, id), LAMBDA g :
    IF g.err # NoError THEN Threw(db, nextId, g.err, g.msg)
    ELSE Bind(Then(Then(Then(Then(products_updateName(db, db[g.k], id, updates),
                                  LAMBDA q : products_updatePrice(q, updates)),
                             LAMBDA q : products_updateCategory(q, updates)),
                        LAMBDA q : rev006_updateStock(q, updates)),
                   LAMBDA q : products_updateStatus(q, updates)), LAMBDA r :
            IF r.err # NoError
            THEN Threw([db EXCEPT ![g.k] = r.rec], nextId, r.err, r.msg)
            ELSE Returned([db EXCEPT ![g.k] = [r.rec EXCEPT !.updatedAt = t]],
                          nextId, r.rec.id)))

\* product.reservedStock || 0
reservedOf(product) ==
    IF "reservedStock" \in DOMAIN product THEN product.reservedStock ELSE 0

\* delete product.reservedStock
DeleteField(product, f) == [g \in DOMAIN product \ {f} |-> product[g]]

\* Number.isNaN(qty) || qty <= 0 || !Number.isInteger(qty)
NotPositiveInteger(qty) == qty.nan \/ qty.m <= 0 \/ ~IsInteger(qty)

\* setReorderPoint(productId, reorderPoint); needsReorder is in what it returns
setReorderPoint(db, nextId, productId, reorderPoint, t) ==
    Bind(lookup(db, productId), LAMBDA g :
    IF g.err # NoError
    THEN [needsReorder |-> FALSE] @@ Threw(db, nextId, g.err, g.msg)
    ELSE Bind(NumberOf(reorderPoint), LAMBDA point :
    IF point.nan \/ point.m < 0 \/ ~IsInteger(point)
    THEN [needsReorder |-> FALSE]
         @@ Threw(db, nextId, ValidationError, "Reorder point must be a non-negative integer")
    ELSE [needsReorder |-> db[g.k].stock <= point.m \div Thousand]
         @@ Returned([db EXCEPT ![g.k] =
                        SetField(SetField(db[g.k], "reorderSettings",
                                          [reorderPoint |-> point.m \div Thousand]),
                                 "updatedAt", t)],
                     nextId, db[g.k].id)))

\* getProductsNeedingReorder()
getProductsNeedingReorder(db) ==
    SelectSeq(db, LAMBDA product :
        IF "reorderSettings" \notin DOMAIN product
              \/ product.reorderSettings.reorderPoint = 0
        THEN FALSE
        ELSE product.stock <= product.reorderSettings.reorderPoint)

\* getInventorySummary().needsReorder
needsReorder(db) ==
    SelectSeq(db, LAMBDA product :
        /\ "reorderSettings" \in DOMAIN product
        /\ product.stock <= product.reorderSettings.reorderPoint)

\* reserveStock(productId, quantity)
reserveStock(db, nextId, productId, quantity, t) ==
    Bind(lookup(db, productId), LAMBDA g :
    IF g.err # NoError THEN Threw(db, nextId, g.err, g.msg)
    ELSE Bind(NumberOf(quantity), LAMBDA qty :
    IF NotPositiveInteger(qty)
    THEN Threw(db, nextId, ValidationError, "Reservation quantity must be a positive integer")
    ELSE Bind(db[g.k].stock - reservedOf(db[g.k]), LAMBDA availableStock :
    IF qty.m \div Thousand > availableStock
    THEN Threw(db, nextId, ValidationError, "Cannot reserve")
    ELSE Returned([db EXCEPT ![g.k] =
                     SetField(SetField(db[g.k], "reservedStock",
                                       reservedOf(db[g.k]) + qty.m \div Thousand),
                              "updatedAt", t)],
                  nextId, db[g.k].id))))

\* releaseStock(productId, quantity)
releaseStock(db, nextId, productId, quantity, t) ==
    Bind(lookup(db, productId), LAMBDA g :
    IF g.err # NoError THEN Threw(db, nextId, g.err, g.msg)
    ELSE Bind(NumberOf(quantity), LAMBDA qty :
    IF NotPositiveInteger(qty)
    THEN Threw(db, nextId, ValidationError, "Release quantity must be a positive integer")
    ELSE IF reservedOf(db[g.k]) = 0 \/ reservedOf(db[g.k]) < qty.m \div Thousand
    THEN Threw(db, nextId, ValidationError, "Cannot release")
    ELSE Bind(reservedOf(db[g.k]) - qty.m \div Thousand, LAMBDA left :
         Bind(IF left = 0 THEN DeleteField(db[g.k], "reservedStock")
              ELSE SetField(db[g.k], "reservedStock", left), LAMBDA product :
         Returned([db EXCEPT ![g.k] = SetField(product, "updatedAt", t)],
                  nextId, db[g.k].id)))))

\* getAvailableStock(productId) of a product that is in the store
getAvailableStock(db, productId) ==
    Bind(lookup(db, productId), LAMBDA g : db[g.k].stock - reservedOf(db[g.k]))

\* checkDataIntegrity().isValid; the model's records always hold a string
\* name, numbers for price and stock, and both timestamps
checkDataIntegrity(db) ==
    /\ \A k \in 1..Len(db) :
          /\ db[k].name # <<>>
          /\ db[k].price >= 0
          /\ db[k].stock >= 0
          /\ db[k].category # <<>>
          /\ db[k].status \in ProductStatuses
    /\ \A j, k \in 1..Len(db) : j # k => db[j].id # db[k].id
    /\ \A j, k \in 1..Len(db) :
          j # k => ToLowerCase(db[j].name) # ToLowerCase(db[k].name)

(* ---- arrays handed out by the list queries ----                         *)
(* A caller holds what a query returned: a new array, or the very array   *)
(* the service works on.  held.ref says which; a new array is held.v.     *)

\* no controller call yet; the last call was no bulk create
NoResponse == [status |-> 0, error |-> "", body |-> <<>>]
NoResult == [created |-> <<>>, errors |-> <<>>]

NothingHeld == [ref |-> "none", v |-> <<>>]
NewArray(v) == [ref |-> "new", v |-> v]
StoreArray == [ref |-> "store", v |-> <<>>]
\* a new array after the caller changed it
ChangedArray(v) == [ref |-> "changed", v |-> v]

\* Array.prototype.reverse
Reversed(a) == [i \in 1..Len(a) |-> a[Len(a) + 1 - i]]

\* faulty variant of getAll: the newest record comes first
getAllNewestFirst(db, status) ==
    IF Falsy(status) THEN NewArray(Reversed(db))
    ELSE NewArray(Reversed(SelectSeq(db, LAMBDA r : r.status = status.w)))

\* getAll(status) of the items, users and orders services: [...this.items]
getAll(db, status) ==
    IF Falsy(status) THEN NewArray(db)
    ELSE NewArray(SelectSeq(db, LAMBDA r : r.status = status.w))

\* Math.min
MinOf(a, b) == IF a <= b THEN a ELSE b

Million == Thousand * Thousand

\* Array.prototype.slice(start, end) for start, end >= 0, in millionths: both
\* are truncated to integers
slice(a, start, end) ==
    SubSeq(a, (start \div Million) + 1, MinOf(end \div Million, Len(a)))

\* Number(v) || fallback, in thousandths
NumberOr(v, fallback) ==
    IF NumberOf(v).nan \/ NumberOf(v).m = 0 THEN fallback * Thousand ELSE NumberOf(v).m

\* getPaginated(page, limit, status); page and limit of the answer in thousandths
getPaginated(db, page, limit, status) ==
    Bind(MaxOf(Thousand, NumberOr(page, 1)), LAMBDA pageNum :
    Bind(MaxOf(Thousand, MinOf(100 * Thousand, NumberOr(limit, 10))), LAMBDA limitNum :
    Bind(getAll(db, status).v, LAMBDA filteredItems :
    Bind((Len(filteredItems) * Thousand + limitNum - 1) \div limitNum, LAMBDA totalPages :
    Bind((pageNum - Thousand) * limitNum, LAMBDA offset :
        [ref |-> "new",
         v |-> slice(filteredItems, offset, offset + limitNum * Thousand),
         pagination |-> [page |-> pageNum, limit |-> limitNum,
                         total |-> Len(filteredItems), totalPages |-> totalPages,
                         hasNext |-> pageNum < totalPages * Thousand,
                         hasPrev |-> pageNum > Thousand]])))))

\* the characters of the model's lower-cased strings, by ascending code unit
CodeUnits ==
    <<" ", ".", "0", "1", "2", "3", "4", "5", "6", "7", "8", "9", "@">> \o LowerCase

CodeOf(c) == CHOOSE i \in 1..Len(CodeUnits) : CodeUnits[i] = c

\* a < b for strings: by code units, a proper prefix first
RECURSIVE StringLess(_, _)
StringLess(a, b) ==
    IF b = <<>> THEN FALSE
    ELSE IF a = <<>> THEN TRUE
    ELSE IF Head(a) # Head(b) THEN CodeOf(Head(a)) < CodeOf(Head(b))
    ELSE StringLess(Tail(a), Tail(b))

\* the letters of a status, which the model keeps as a word
Letters(word) ==
    CASE word = "pending" -> <<"p", "e", "n", "d", "i", "n", "g">>
      [] word = "processing" -> <<"p", "r", "o", "c", "e", "s", "s", "i", "n", "g">>
      [] word = "shipped" -> <<"s", "h", "i", "p", "p", "e", "d">>
      [] word = "completed" -> <<"c", "o", "m", "p", "l", "e", "t", "e", "d">>
      [] word = "cancelled" -> <<"c", "a", "n", "c", "e", "l", "l", "e", "d">>

\* aValue < bValue in the comparator of getSorted: strings are lower-cased,
\* numbers and the times of dates are compared as numbers
ValueLess(a, b, sortBy) ==
    IF sortBy \in {"name", "category", "customerName"}
    THEN StringLess(ToLowerCase(a[sortBy]), ToLowerCase(b[sortBy]))
    ELSE IF sortBy = "status" THEN StringLess(Letters(a.status), Letters(b.status))
    ELSE a[sortBy] < b[sortBy]

\* the comparator says that a goes before b
GoesBefore(a, b, sortBy, order) ==
    IF order = "asc" THEN ValueLess(a, b, sortBy) ELSE ValueLess(b, a, sortBy)

\* [...db].sort(comparator): the sort is stable, so a record's place is the
\* number of records that go before it, or tie with it and precede it in db
sort(db, sortBy, order) ==
    [r \in 1..Len(db) |->
        db[CHOOSE i \in 1..Len(db) :
              r = 1 + Cardinality({j \in 1..Len(db) :
                        \/ GoesBefore(db[j], db[i], sortBy, order)
                        \/ /\ ~GoesBefore(db[i], db[j], sortBy, order)
                           /\ j < i})]]

\* order.toLowerCase(), for the words handed in as order
LowerWord(order) ==
    CASE order = "ASC" -> "asc"
      [] order = "DESC" -> "desc"
      [] OTHER -> order

ProductSortFields == {"name", "price", "stock", "category", "createdAt", "updatedAt"}
OrderSortFields ==
    {"id", "customerName", "productId", "quantity", "total", "status", "createdAt",
     "updatedAt"}

\* what getSorted returns or throws: [err, msg, held]
Sorted(err, msg, array) == [err |-> err, msg |-> msg, held |-> array]

\* getSorted(sortBy = byDefault, order = orderDefault) over the valid fields
getSortedOver(db, fields, sortBy, byDefault, order, orderDefault) ==
    Bind(IF sortBy.t = "undefined" THEN JWord(byDefault) ELSE sortBy, LAMBDA by :
    Bind(IF order.t = "undefined" THEN JWord(orderDefault) ELSE order, LAMBDA ord :
        IF by.t # "word" \/ by.w \notin fields
        THEN Sorted(ValidationError, "Invalid sort field", NothingHeld)
        ELSE IF ord.t # "word"
        THEN Sorted(TypeError, "Cannot read properties of null (reading 'toLowerCase')", NothingHeld)
        ELSE IF LowerWord(ord.w) \notin {"asc", "desc"}
        THEN Sorted(ValidationError, "Invalid sort order", NothingHeld)
        ELSE Sorted(NoError, "", NewArray(sort(db, by.w, LowerWord(ord.w))))))

\* ProductsService.getSorted(sortBy = "name", order = "asc")
products_getSorted(db, sortBy, order) ==
    getSortedOver(db, ProductSortFields, sortBy, "name", order, "asc")

\* OrdersService.getSorted(sortBy = "createdAt", order = "desc")
orders_getSorted(db, sortBy, order) ==
    getSortedOver(db, OrderSortFields, sortBy, "createdAt", order, "desc")

\* getAll(productId) of the reviews service
reviews_getAll(db, productId) ==
    IF ~Falsy(productId)
    THEN NewArray(SelectSeq(db, LAMBDA r : r.productId = ToNumber(productId)))
    ELSE StoreArray

\* advancedSearch(filters) of the products service, for no filters or {}
advancedSearch(db, filters) ==
    IF Falsy(filters) \/ filters.t # "object" THEN StoreArray
    ELSE NewArray(db)

\* s.includes(q): q stands in s at index k - 1 or later
RECURSIVE includesFrom(_, _, _)
includesFrom(s, q, k) ==
    IF k + Len(q) - 1 > Len(s) THEN FALSE
    ELSE IF SubSeq(s, k, k + Len(q) - 1) = q THEN TRUE
    ELSE includesFrom(s, q, k + 1)

includes(s, q) == includesFrom(s, q, 1)

\* faulty variant of search: the query is compared as it was typed
searchAsTyped(db, query) ==
    IF Falsy(query) \/ ~IsString(query) THEN NewArray(<<>>)
    ELSE NewArray(SelectSeq(db, LAMBDA item : includes(ToLowerCase(item.name), query.s)))

\* search(query) of the items service
search(db, query) ==
    IF Falsy(query) \/ ~IsString(query) THEN NewArray(<<>>)
    ELSE Bind(ToLowerCase(query.s), LAMBDA lowerQuery :
            NewArray(SelectSeq(db, LAMBDA item :
                includes(ToLowerCase(item.name), lowerQuery))))

\* search(query) of the users service
users_search(db, query) ==
    IF Falsy(query) \/ ~IsString(query) THEN NewArray(<<>>)
    ELSE Bind(ToLowerCase(query.s), LAMBDA lowerQuery :
            NewArray(SelectSeq(db, LAMBDA user :
                \/ includes(ToLowerCase(user.name), lowerQuery)
                \/ includes(ToLowerCase(user.email), lowerQuery))))

\* what a caller can do to an array a of its own: push, pop, reverse

ArrayAfter(how, a) ==
    CASE how = "push" -> Append(a, a[1])
      [] how = "pop" -> SubSeq(a, 1, Len(a) - 1)
      [] how = "reverse" -> Reversed(a)

---------------------------------------------------------------------------
(* The state of the items service as a heap, and back *)

Load ==
    [objs |-> [o \in {items[i].oid : i \in 1..Len(items)} |->
                  IF o <= Len(items) /\ items[o].oid = o THEN items[o]
                  ELSE items[CHOOSE i \in 1..Len(items) : items[i].oid = o]],
     list |-> [i \in 1..Len(items) |-> items[i].oid],
     nextId |-> itemsNextId,
     alloc |-> allocated,
     hi |-> maxAssigned,
     reused |-> idReused,
     gone |-> gone]

Commit(S) ==
    /\ items' = [i \in 1..Len(S.list) |-> S.objs[S.list[i]]]
    /\ itemsNextId' = S.nextId
    /\ allocated' = S.alloc
    /\ maxAssigned' = S.hi
    /\ idReused' = S.reused
    /\ gone' = S.gone

Outcome(op, r) == [op |-> op, err |-> r.err, msg |-> r.msg]

\* return { created, errors, ... } of a bulk call, by input position; nothing
\* is returned by a call that threw
returnedLists(r) ==
    IF r.err = NoError THEN [created |-> r.done, errors |-> r.errors] ELSE NoResult

\* return { imported, errors, skipped, ... } of importFromJSON, by input
\* position (created holds the ids of the records imported); nothing is
\* returned by a call that threw
importedLists(r) ==
    IF r.err = NoError
    THEN [created |-> r.imported, errors |-> r.errors, skipped |-> r.skipped]
    ELSE NoResult

---------------------------------------------------------------------------
(* Inputs *)

SeqsUpTo(S, n) == UNION {[1..k -> S] : k \in 0..n}

Widget == <<"W", "i", "d", "g", "e", "t">>
PaddedWidget == <<" ", "W", "i", "d", "g", "e", "t", " ">>
LowerFirstItem == <<"f", "i", "r", "s", "t", " ", "i", "t", "e", "m">>
Blank == <<" ", " ">>
LongName == [i \in 1..(ItemNameMax + 1) |-> "x"]

ItemNames ==
    {JStr(PaddedWidget), JStr(LowerFirstItem), JStr(<<>>), JStr(Blank),
     JStr(LongName), JNum(42), Undefined}

\* ids handed to update, and to delete
ItemIds == {JNum(1), JNum(2), JNumStr(1), JText}
ItemDeleteIds == {JNum(n) : n \in 1..MaxAlloc} \cup {JText}

ItemUpdates ==
    {[name |-> JStr(LowerFirstItem)],
     [status |-> "archived"],
     [name |-> JStr(LowerFirstItem), status |-> "bogus"],
     [name |-> JStr(LowerFirstItem), status |-> "archived"]}

BulkNames == {JStr(PaddedWidget), JStr(LowerFirstItem)}

BulkUpdates ==
    {[id |-> JNum(1), status |-> "archived"],
     [name |-> JStr(LowerFirstItem)]}

BulkIds == {JNum(1), JText}

BatchOps ==
    {[type |-> "create", data |-> [name |-> JStr(PaddedWidget), status |-> "archived"]],
     [type |-> "create", data |-> [name |-> JStr(PaddedWidget), status |-> "bogus"]],
     [type |-> "update", data |-> [id |-> JNum(2), name |-> JStr(LowerFirstItem),
                                   status |-> "bogus"]],
     [type |-> "delete", data |-> [id |-> JNum(1)]]}

\* every list of at most MaxBulk elements, and the scenarios: longer lists in
\* which a later element meets what an earlier one did
Arrays(lists) == {JArray(v) : v \in lists}

\* BulkLimit + 1 times the element e
TooMany(e) == JArray([i \in 1..(BulkLimit + 1) |-> e])

NameLists ==
    Arrays(SeqsUpTo(BulkNames, MaxBulk)
           \cup {<<JStr(PaddedWidget), JStr(LowerFirstItem)>>})
    \cup {TooMany(JStr(PaddedWidget)), JStr(PaddedWidget)}

UpdateLists ==
    Arrays(SeqsUpTo(BulkUpdates, MaxBulk)
           \cup {<<[name |-> JStr(LowerFirstItem)], [id |-> JNum(1), status |-> "archived"]>>,
                 <<JNull, [id |-> JNum(1), status |-> "archived"]>>})
    \cup {TooMany([id |-> JNum(1), status |-> "archived"]), Undefined}

IdLists ==
    Arrays(SeqsUpTo(BulkIds, MaxBulk) \cup {<<JText, JNum(1)>>})
    \cup {TooMany(JNum(1)), JNum(1)}

OperationLists ==
    Arrays(SeqsUpTo(BatchOps, MaxBulk)
           \cup {<<[type |-> "delete", data |-> [id |-> JNum(1)]],
                   [type |-> "update", data |-> [id |-> JNum(2), name |-> JStr(LowerFirstItem),
                                                 status |-> "bogus"]]>>,
                 <<[type |-> "create", data |-> [name |-> JStr(PaddedWidget), status |-> "archived"]],
                   [type |-> "create", data |-> [name |-> JStr(PaddedWidget), status |-> "bogus"]]>>})
    \cup {TooMany([type |-> "delete", data |-> [id |-> JNum(1)]]), Undefined}

\* lists handed to bulkUpdateWithValidation
ValidatedUpdateLists ==
    Arrays({<<[id |-> JNum(1), status |-> "archived"]>>,
            <<[name |-> JStr(LowerFirstItem)]>>,
            <<>>})
    \cup {TooMany([id |-> JNum(1), status |-> "archived"]), Undefined}

ImportItems ==
    {[name |-> JStr(PaddedWidget), status |-> "archived"],
     [name |-> JStr(PaddedWidget), status |-> "bogus"],
     [name |-> JStr(LowerFirstItem)],
     [status |-> "archived"]}

ImportTexts ==
    {Undefined, JText, JSONText(FALSE, <<>>), JSONText(TRUE, <<>>)}
    \cup {JSONText(TRUE, v) : v \in SeqsUpTo(ImportItems, MaxBulk) \ {<<>>}}
    \cup {JSONText(TRUE, <<[name |-> JStr(PaddedWidget), status |-> "bogus"],
                           [name |-> JStr(PaddedWidget), status |-> "archived"]>>)}

\* the imports that SpecExport follows besides the import of the export
ExportImportTexts ==
    {JSONText(TRUE, <<item>>) : item \in ImportItems}
    \cup {JSONText(TRUE, <<[name |-> JStr(LowerFirstItem)],
                           [name |-> JStr(PaddedWidget), status |-> "bogus"],
                           [status |-> "archived"]>>)}

\* the batch and the import that SpecClock follows
ClockOperationLists ==
    Arrays({<<[type |-> "create", data |-> [name |-> JStr(PaddedWidget), status |-> "archived"]]>>,
            <<[type |-> "update", data |-> [id |-> JNum(2), name |-> JStr(LowerFirstItem),
                                            status |-> "bogus"]]>>})

ClockImportTexts ==
    {JSONText(TRUE, <<[name |-> JStr(PaddedWidget), status |-> "archived"]>>)}

\* ids handed to update, and to delete, of the users / products / orders services
UpdateIds == {JNum(1), JNumStr(1), JText}
UserUpdateIds == UpdateIds \cup {JNum(2)}
DeleteIds == {JNum(n) : n \in 1..MaxAlloc} \cup {JText}

Ann == <<"A", "n", "n">>
NewEmail == <<"a", "n", "n", "@", "x", ".", "i", "o">>
ShoutedJohnEmail == <<" ", "J", "O", "H", "N", "@", "E", "x", "a", "m", "p", "l", "e", ".", "c", "o", "m", " ">>
BadEmail == <<"a", "n", "n", "@", "x">>

UserData ==
    {[name |-> JStr(Ann), email |-> JStr(NewEmail)],
     [name |-> JStr(Ann), email |-> JStr(NewEmail), role |-> "moderator"],
     [name |-> JStr(Ann), email |-> JStr(NewEmail), role |-> "root"],
     [name |-> JStr(Ann), email |-> JStr(ShoutedJohnEmail)],
     [name |-> JStr(Ann), email |-> JStr(ShoutedJohnEmail), role |-> "root"],
     [name |-> JStr(Blank), email |-> JStr(ShoutedJohnEmail)],
     [name |-> JStr(Ann), email |-> JStr(BadEmail)],
     [email |-> JStr(NewEmail)]}

UserUpdates ==
    {[name |-> JStr(Ann)],
     [email |-> JStr(ShoutedJohnEmail)],
     [name |-> JStr(Ann), email |-> JStr(ShoutedJohnEmail)],
     [role |-> "admin"],
     [role |-> "root"],
     [status |-> "suspended"],
     [name |-> JStr(Ann), status |-> "bogus"]}

LowerLaptop == <<"l", "a", "p", "t", "o", "p">>
PaddedToys == <<" ", "T", "o", "y", "s", " ">>

ProductData ==
    {[name |-> JStr(PaddedWidget), price |-> JDec(19999)],
     [name |-> JStr(PaddedWidget), price |-> JNum(5), category |-> PaddedToys,
      stock |-> JNum(7)],
     [name |-> JStr(PaddedWidget), price |-> JNum(5), stock |-> JDec(1500)],
     [name |-> JStr(PaddedWidget)],
     [name |-> JStr(LowerLaptop), price |-> JNum(5)],
     [name |-> JStr(LowerLaptop), price |-> JDec(0 - 10)],
     [name |-> JStr(LowerLaptop), price |-> JNum(5), stock |-> JDec(1500)],
     [name |-> JStr(PaddedWidget), price |-> JNum(0)]}

ProductUpdates ==
    {[name |-> JStr(LowerLaptop)],
     [price |-> JDec(1005)],
     [price |-> JText],
     [status |-> "discontinued"],
     [name |-> JStr(PaddedWidget), price |-> JDec(0 - 10)],
     [category |-> PaddedToys, stock |-> JNum(0), status |-> "bogus"]}

Carol == <<"C", "a", "r", "o", "l">>

OrderData ==
    {[customerName |-> JStr(Carol), productId |-> JNum(1), quantity |-> JNum(2),
      price |-> JDec(1005)],
     [customerName |-> JStr(Carol), productId |-> JNum(0), quantity |-> JNum(2),
      price |-> JDec(1005)],
     [customerName |-> JStr(Carol), productId |-> JNum(1), quantity |-> JNum(0),
      price |-> JDec(1005)],
     [customerName |-> JStr(Carol), productId |-> JNum(1), quantity |-> JNum(2)],
     [customerName |-> JStr(Blank), productId |-> JNum(1), quantity |-> JNum(2),
      price |-> JDec(1005)]}

OrderUpdates ==
    {[quantity |-> JNum(3)],
     [quantity |-> JDec(1500)],
     [customerName |-> JStr(Carol)],
     [status |-> "shipped"],
     [customerName |-> JStr(Carol), status |-> "bogus"],
     [customerName |-> JStr(Carol), quantity |-> JNum(0)]}

LegacyNames == {JStr(Widget), Undefined}
LegacyIds == {JNum(n) : n \in 1..MaxAlloc} \cup {JNumStr(1)}

Fine == <<"f", "i", "n", "e">>

ReviewData ==
    {[productId |-> JNum(1), userId |-> JNum(2), rating |-> JNum(5)],
     [productId |-> JNumStr(2), userId |-> JNum(1), rating |-> JNum(1),
      comment |-> JStr(Fine)],
     [productId |-> JNum(1), userId |-> JNum(2), rating |-> JNum(6)],
     [productId |-> JNum(1), userId |-> JNum(2), rating |-> JText],
     [productId |-> JNum(1), rating |-> JNum(5)]}

ReviewUpdates ==
    {[rating |-> JNum(3)],
     [comment |-> JStr(Fine)],
     [rating |-> JNum(0), comment |-> JStr(Fine)]}

ReviewIds == {JNum(1), JNum(2), JNumStr(1), JText}

\* adjustStock: the quantities, and the products they are applied to
AdjustQuantities == {JNum(1), JNum(0 - 16), JDec(1500), JText, JNum(MaxStock)}
AdjustIds == {JNum(1), JNumStr(1), JNum(3), JText}

\* the ids looked up with getById
LookupIds == {JNum(n) : n \in 1..MaxAlloc} \cup {JNumStr(1), JText, Undefined}

\* the filters of the list queries
StatusFilters == {JNull, JWord("active"), JWord("archived")}
ProductIdFilters == {JNull, JNum(1)}
SearchFilters == {Undefined, JObject}

\* the pages and limits asked of getPaginated
PageNumbers == {Undefined, JNum(2), JNum(3), JDec(1500)}
PageLimits == {Undefined, JNum(1), JNum(2), JDec(1500), JNum(0 - 1), JNum(101)}

\* the fields and orders asked of getSorted
ProductSortBys == {Undefined, JWord("price"), JWord("createdAt"), JWord("bogus")}
OrderSortBys == {Undefined, JWord("customerName"), JWord("status"), JNull}
SortOrders == {Undefined, JWord("asc"), JWord("DESC"), JWord("up"), JNull}

\* the queries handed to search
ItemQueries ==
    {JStr(<<"I", "T">>), JStr(<<"W", "I", "D">>), JStr(<<>>), JNull, Undefined, JNum(1)}
UserQueries == {JStr(<<"@", "E">>), JStr(<<"A", "N", "N">>), JStr(<<>>), JNull}

\* the calls of the revision of part_006 that keeps stock
StockData ==
    {[name |-> JStr(PaddedWidget), price |-> JNum(5)],
     [name |-> JStr(PaddedWidget), price |-> JNum(5), category |-> Blank,
      stock |-> JNum(MaxStock + 1)]}
StockUpdates ==
    {[stock |-> JNum(5)], [category |-> Blank], [stock |-> JNum(MaxStock + 1)],
     [name |-> JStr(LowerLaptop), status |-> "bogus"]}
StockIds == {JNum(1), JNum(3), JText}
ReserveQuantities == {JNum(15), JNum(5), JNum(0), JDec(1500)}
StockAdjustments == {JNum(0 - 10)}
ReorderPoints == {JNum(0), JNum(20), JNum(0 - 1)}

\* req.params.id: always a string
ParamIds == {JNumStr(1), JNumStr(3), JText}

ArrayChanges == {"push", "pop", "reverse"}

---------------------------------------------------------------------------
(* Actions: one call of one method of the service the behaviour follows   *)

Current == "items"
Rev007 == "items@part_007"
Rev008 == "items@part_008"

ItemCreate(name) ==
    /\ svc \in {Current, Rev007}
    /\ \E S \in {Load} : \E r \in {create(S, name, now)} :
          r.S.alloc <= MaxAlloc /\ Commit(r.S) /\ last' = Outcome("create", r)
    /\ result' = NoResult
    /\ UNCHANGED <<svc, gateVars, now, held, res, reviewVars, userVars, productVars, orderVars, legacyItems>>

ItemUpdate(id, updates) ==
    /\ svc \in {Current, Rev007}
    /\ \E S \in {Load} : \E r \in {update(S, id, updates, now)} :
          Commit(r.S) /\ last' = Outcome("update", r)
    /\ result' = NoResult
    /\ UNCHANGED <<svc, gateVars, now, held, res, reviewVars, userVars, productVars, orderVars, legacyItems>>

ItemDelete(id) ==
    /\ svc \in {Current, Rev007}
    /\ \E S \in {Load} : \E r \in {delete(S, id)} :
          Commit(r.S) /\ last' = Outcome("delete", r)
    /\ result' = NoResult
    /\ UNCHANGED <<svc, gateVars, now, held, res, reviewVars, userVars, productVars, orderVars, legacyItems>>

ItemBulkCreate(names) ==
    /\ svc = Current
    /\ \E S \in {Load} : \E r \in {bulkCreate(S, names, now)} :
          /\ r.S.alloc <= MaxAlloc /\ Commit(r.S) /\ last' = Outcome("bulkCreate", r)
          /\ result' = returnedLists(r)
    /\ UNCHANGED <<svc, gateVars, now, held, res, reviewVars, userVars, productVars, orderVars, legacyItems>>

ItemBulkUpdate(updates) ==
    /\ svc = Current
    /\ \E S \in {Load} : \E r \in {bulkUpdate(S, updates, now)} :
          Commit(r.S) /\ last' = Outcome("bulkUpdate", r)
    /\ result' = NoResult
    /\ UNCHANGED <<svc, gateVars, now, held, res, reviewVars, userVars, productVars, orderVars, legacyItems>>

ItemBulkDelete(ids) ==
    /\ svc = Current
    /\ \E S \in {Load} : \E r \in {bulkDelete(S, ids)} :
          Commit(r.S) /\ last' = Outcome("bulkDelete", r)
    /\ result' = NoResult
    /\ UNCHANGED <<svc, gateVars, now, held, res, reviewVars, userVars, productVars, orderVars, legacyItems>>

ItemBulkCreateTransactional(names, rollbackOnError) ==
    /\ svc = Current
    /\ \E S \in {Load} : \E r \in {bulkCreateTransactional(S, names, rollbackOnError, now)} :
          /\ r.S.alloc <= MaxAlloc /\ Commit(r.S)
          /\ last' = Outcome("bulkCreateTransactional", r)
          /\ result' = returnedLists(r)
    /\ UNCHANGED <<svc, gateVars, now, held, res, reviewVars, userVars, productVars, orderVars, legacyItems>>

ItemBatchOperations(operations) ==
    /\ svc = Current
    /\ \E S \in {Load} : \E r \in {batchOperations(S, operations, now)} :
          /\ r.S.alloc <= MaxAlloc
          \* history: the delete calls of a batch that was rolled back are undone
          /\ Commit(IF r.err = NoError THEN r.S ELSE [r.S EXCEPT !.gone = S.gone])
          /\ last' = Outcome("batchOperations", r)
    /\ result' = NoResult
    /\ UNCHANGED <<svc, gateVars, now, held, res, reviewVars, userVars, productVars, orderVars, legacyItems>>

ItemBulkUpdateWithValidation(updates) ==
    /\ svc = Current
    /\ \E S \in {Load} : \E r \in {bulkUpdateWithValidation(S, updates, now)} :
          Commit(r.S) /\ last' = Outcome("bulkUpdateWithValidation", r)
    /\ result' = NoResult
    /\ UNCHANGED <<svc, gateVars, now, held, res, reviewVars, userVars, productVars, orderVars, legacyItems>>

ItemImportFromJSON(jsonData) ==
    /\ svc = Rev007
    /\ \E S \in {Load} : \E r \in {importFromJSON(S, jsonData, now)} :
          /\ r.S.alloc = allocated \/ r.S.alloc <= MaxAlloc
          /\ Commit(r.S) /\ last' = Outcome("importFromJSON", r)
          /\ result' = importedLists(r)
    /\ UNCHANGED <<svc, gateVars, now, held, res, reviewVars, userVars, productVars, orderVars, legacyItems>>

\* the history variables after a call that returned r
Assigned(r) ==
    IF r.err = NoError /\ r.id > 0
    THEN /\ maxAssigned' = MaxOf(maxAssigned, r.id)
         /\ idReused' = (idReused \/ r.id <= maxAssigned)
         /\ gone' = gone
    ELSE UNCHANGED histVars

\* the history variables after a delete call that returned r
Deleted(r) ==
    /\ gone' = (IF r.err = NoError THEN gone \cup {r.id} ELSE gone)
    /\ UNCHANGED <<maxAssigned, idReused>>

UserCreate(data) ==
    /\ svc = "users"
    /\ \E r \in {users_create(users, usersNextId, data, now)} :
          /\ r.nextId <= MaxAlloc + 1
          /\ users' = r.db /\ usersNextId' = r.nextId
          /\ Assigned(r) /\ last' = Outcome("create", r)
    /\ UNCHANGED <<svc, gateVars, now, held, res, result, reviewVars, itemVars, productVars, orderVars, legacyItems>>

UserUpdate(id, updates) ==
    /\ svc = "users"
    /\ \E r \in {users_update(users, usersNextId, id, updates, now)} :
          users' = r.db /\ usersNextId' = r.nextId /\ last' = Outcome("update", r)
    /\ UNCHANGED <<svc, gateVars, now, held, res, result, reviewVars, itemVars, histVars, productVars, orderVars, legacyItems>>

UserDelete(id) ==
    /\ svc = "users"
    /\ \E r \in {users_delete(users, usersNextId, id)} :
          /\ users' = r.db /\ usersNextId' = r.nextId /\ last' = Outcome("delete", r)
          /\ Deleted(r)
    /\ UNCHANGED <<svc, gateVars, now, held, res, result, reviewVars, itemVars, productVars, orderVars, legacyItems>>

ProductCreate(data) ==
    /\ svc = "products"
    /\ \E r \in {products_create(products, productsNextId, data, now)} :
          /\ r.nextId <= MaxAlloc + 1
          /\ products' = r.db /\ productsNextId' = r.nextId
          /\ Assigned(r) /\ last' = Outcome("create", r)
    /\ UNCHANGED <<svc, gateVars, now, held, res, result, reviewVars, itemVars, userVars, orderVars, legacyItems>>

ProductUpdate(id, updates) ==
    /\ svc = "products"
    /\ \E r \in {products_update(products, productsNextId, id, updates, now)} :
          products' = r.db /\ productsNextId' = r.nextId /\ last' = Outcome("update", r)
    /\ UNCHANGED <<svc, gateVars, now, held, res, result, reviewVars, itemVars, histVars, userVars, orderVars, legacyItems>>

ProductDelete(id) ==
    /\ svc = "products"
    /\ \E r \in {products_delete(products, productsNextId, id)} :
          /\ products' = r.db /\ productsNextId' = r.nextId /\ last' = Outcome("delete", r)
          /\ Deleted(r)
    /\ UNCHANGED <<svc, gateVars, now, held, res, result, reviewVars, itemVars, userVars, orderVars, legacyItems>>

OrderCreate(data) ==
    /\ svc = "orders"
    /\ \E r \in {orders_create(orders, ordersNextId, data, now)} :
          /\ r.nextId <= MaxAlloc + 1
          /\ orders' = r.db /\ ordersNextId' = r.nextId
          /\ Assigned(r) /\ last' = Outcome("create", r)
    /\ UNCHANGED <<svc, gateVars, now, held, res, result, reviewVars, itemVars, userVars, productVars, legacyItems>>

OrderUpdate(id, updates) ==
    /\ svc = "orders"
    /\ \E r \in {orders_update(orders, ordersNextId, id, updates, now)} :
          orders' = r.db /\ ordersNextId' = r.nextId /\ last' = Outcome("update", r)
    /\ UNCHANGED <<svc, gateVars, now, held, res, result, reviewVars, itemVars, histVars, userVars, productVars, legacyItems>>

OrderDelete(id) ==
    /\ svc = "orders"
    /\ \E r \in {orders_delete(orders, ordersNextId, id)} :
          /\ orders' = r.db /\ ordersNextId' = r.nextId /\ last' = Outcome("delete", r)
          /\ Deleted(r)
    /\ UNCHANGED <<svc, gateVars, now, held, res, result, reviewVars, itemVars, userVars, productVars, legacyItems>>

LegacyCreate(name) ==
    /\ svc = Rev008
    /\ legacy_nextId(legacyItems) <= MaxAlloc
    /\ legacyItems' = legacy_create(legacyItems, name)
    /\ Assigned([err |-> NoError, id |-> legacy_nextId(legacyItems)])
    /\ last' = [op |-> "create", err |-> NoError, msg |-> ""]
    /\ UNCHANGED <<svc, gateVars, now, held, res, result, reviewVars, itemVars, userVars, productVars, orderVars>>

LegacyDelete(id) ==
    /\ svc = Rev008
    /\ legacyItems' = legacy_delete(legacyItems, id)
    /\ last' = [op |-> "delete", err |-> NoError, msg |-> ""]
    /\ UNCHANGED <<svc, gateVars, now, held, res, result, reviewVars, itemVars, histVars, userVars, productVars, orderVars>>

Rev006 == "products@part_006"

ProductAdjustStock(productId, quantity) ==
    /\ svc = Rev006
    /\ \E r \in {adjustStock(products, productsNextId, productId, quantity, now)} :
          /\ \A k \in 1..Len(r.db) :
                r.db[k].stock # products[k].stock => r.db[k].stock <= MaxUnits
          /\ products' = r.db /\ productsNextId' = r.nextId
          /\ last' = Outcome("adjustStock", r)
    /\ UNCHANGED <<svc, gateVars, now, held, res, result, reviewVars, itemVars, histVars, userVars, orderVars,
                   legacyItems>>

\* the other calls of the revision of part_006
Rev006Create(data) ==
    /\ svc = Rev006
    /\ \E r \in {rev006_create(products, productsNextId, data, now)} :
          /\ r.nextId <= MaxAlloc + 1
          /\ products' = r.db /\ productsNextId' = r.nextId
          /\ Assigned(r) /\ last' = Outcome("create", r)
    /\ UNCHANGED <<svc, gateVars, now, held, res, result, reviewVars, itemVars, userVars, orderVars,
                   legacyItems>>

Rev006Update(id, updates) ==
    /\ svc = Rev006
    /\ \E r \in {rev006_update(products, productsNextId, id, updates, now)} :
          products' = r.db /\ productsNextId' = r.nextId /\ last' = Outcome("update", r)
    /\ UNCHANGED <<svc, gateVars, now, held, res, result, reviewVars, itemVars, histVars, userVars,
                   orderVars, legacyItems>>

Rev006Delete(id) ==
    /\ svc = Rev006
    /\ \E r \in {products_delete(products, productsNextId, id)} :
          /\ products' = r.db /\ productsNextId' = r.nextId /\ last' = Outcome("delete", r)
          /\ Deleted(r)
    /\ UNCHANGED <<svc, gateVars, now, held, res, result, reviewVars, itemVars, userVars, orderVars,
                   legacyItems>>

ProductSetReorderPoint(productId, reorderPoint) ==
    /\ svc = Rev006
    /\ \E r \in {setReorderPoint(products, productsNextId, productId, reorderPoint, now)} :
          products' = r.db /\ productsNextId' = r.nextId
          /\ last' = Outcome("setReorderPoint", r)
    /\ UNCHANGED <<svc, gateVars, now, held, res, result, reviewVars, itemVars, histVars, userVars,
                   orderVars, legacyItems>>

ProductReserveStock(productId, quantity) ==
    /\ svc = Rev006
    /\ \E r \in {reserveStock(products, productsNextId, productId, quantity, now)} :
          products' = r.db /\ productsNextId' = r.nextId
          /\ last' = Outcome("reserveStock", r)
    /\ UNCHANGED <<svc, gateVars, now, held, res, result, reviewVars, itemVars, histVars, userVars,
                   orderVars, legacyItems>>

ProductReleaseStock(productId, quantity) ==
    /\ svc = Rev006
    /\ \E r \in {releaseStock(products, productsNextId, productId, quantity, now)} :
          products' = r.db /\ productsNextId' = r.nextId
          /\ last' = Outcome("releaseStock", r)
    /\ UNCHANGED <<svc, gateVars, now, held, res, result, reviewVars, itemVars, histVars, userVars,
                   orderVars, legacyItems>>

ReviewCreate(reviewData) ==
    /\ svc = "reviews"
    /\ \E r \in {reviews_create(reviews, reviewsNextId, reviewData, now)} :
          /\ r.nextId <= MaxAlloc + 1
          /\ reviews' = r.db /\ reviewsNextId' = r.nextId
          /\ Assigned(r) /\ last' = Outcome("create", r)
    /\ UNCHANGED <<res, result, svc, gateVars, now, held, itemVars, userVars, productVars, orderVars, legacyItems>>

ReviewUpdate(id, updates) ==
    /\ svc = "reviews"
    /\ \E r \in {reviews_update(reviews, reviewsNextId, id, updates, now)} :
          reviews' = r.db /\ reviewsNextId' = r.nextId /\ last' = Outcome("update", r)
    /\ UNCHANGED <<res, result, svc, gateVars, now, held, itemVars, histVars, userVars, productVars, orderVars,
                   legacyItems>>

ReviewDelete(id) ==
    /\ svc = "reviews"
    /\ \E r \in {reviews_delete(reviews, reviewsNextId, id)} :
          reviews' = r.db /\ reviewsNextId' = r.nextId /\ last' = Outcome("delete", r)
    /\ UNCHANGED <<res, result, svc, gateVars, now, held, itemVars, histVars, userVars, productVars, orderVars,
                   legacyItems>>

(* ---- queries: they assign nothing; the caller keeps what they return ---- *)

stores == <<itemVars, histVars, userVars, productVars, orderVars, legacyItems, reviewVars>>

ItemGetById(id) ==
    /\ svc = Current
    /\ last' = Outcome("getById", getById(Load, id))
    /\ UNCHANGED <<res, result, svc, gateVars, now, held, stores>>

UserGetById(id) ==
    /\ svc = "users"
    /\ last' = Outcome("getById", lookup(users, id))
    /\ UNCHANGED <<res, result, svc, gateVars, now, held, stores>>

ProductGetById(id) ==
    /\ svc = "products"
    /\ last' = Outcome("getById", lookup(products, id))
    /\ UNCHANGED <<res, result, svc, gateVars, now, held, stores>>

OrderGetById(id) ==
    /\ svc = "orders"
    /\ last' = Outcome("getById", lookup(orders, id))
    /\ UNCHANGED <<res, result, svc, gateVars, now, held, stores>>

ReviewGetById(id) ==
    /\ svc = "reviews"
    /\ last' = Outcome("getById", reviews_getById(reviews, id))
    /\ UNCHANGED <<res, result, svc, gateVars, now, held, stores>>

ItemGetAll(status) ==
    /\ svc = Current
    /\ held' = getAll(items, status)
    /\ last' = Outcome("getAll", Ok)
    /\ UNCHANGED <<res, result, svc, gateVars, now, stores>>

UserGetAll(status) ==
    /\ svc = "users"
    /\ held' = getAll(users, status)
    /\ last' = Outcome("getAll", Ok)
    /\ UNCHANGED <<res, result, svc, gateVars, now, stores>>

OrderGetAll(status) ==
    /\ svc = "orders"
    /\ held' = getAll(orders, status)
    /\ last' = Outcome("getAll", Ok)
    /\ UNCHANGED <<res, result, svc, gateVars, now, stores>>

ReviewGetAll(productId) ==
    /\ svc = "reviews"
    /\ held' = reviews_getAll(reviews, productId)
    /\ last' = Outcome("getAll", Ok)
    /\ UNCHANGED <<res, result, svc, gateVars, now, stores>>

ProductAdvancedSearch(filters) ==
    /\ svc = "products"
    /\ held' = advancedSearch(products, filters)
    /\ last' = Outcome("advancedSearch", Ok)
    /\ UNCHANGED <<res, result, svc, gateVars, now, stores>>

ItemGetPaginated(page, limit, status) ==
    /\ svc = Current
    /\ held' = getPaginated(items, page, limit, status)
    /\ last' = [op |-> "getPaginated", err |-> NoError, msg |-> "",
                args |-> [page |-> page, limit |-> limit, status |-> status]]
    /\ UNCHANGED <<res, result, svc, gateVars, now, stores>>

ProductGetSorted(sortBy, order) ==
    /\ svc = "products"
    /\ \E r \in {products_getSorted(products, sortBy, order)} :
          /\ held' = IF r.err = NoError THEN r.held ELSE held
          /\ last' = [op |-> "getSorted", err |-> r.err, msg |-> r.msg,
                      args |-> [sortBy |-> sortBy, order |-> order]]
    /\ UNCHANGED <<res, result, svc, gateVars, now, stores>>

OrderGetSorted(sortBy, order) ==
    /\ svc = "orders"
    /\ \E r \in {orders_getSorted(orders, sortBy, order)} :
          /\ held' = IF r.err = NoError THEN r.held ELSE held
          /\ last' = [op |-> "getSorted", err |-> r.err, msg |-> r.msg,
                      args |-> [sortBy |-> sortBy, order |-> order]]
    /\ UNCHANGED <<res, result, svc, gateVars, now, stores>>

ItemSearch(query) ==
    /\ svc = Current
    /\ held' = search(items, query)
    /\ last' = Outcome("search", Ok)
    /\ UNCHANGED <<res, result, svc, gateVars, now, stores>>

UserSearch(query) ==
    /\ svc = "users"
    /\ held' = users_search(users, query)
    /\ last' = Outcome("search", Ok)
    /\ UNCHANGED <<res, result, svc, gateVars, now, stores>>

\* the caller pushes onto, pops from or reverses the array it holds, which
\* is an array of its own (the model follows the first change to it) ...
CallerChangesNewArray(how) ==
    /\ held.ref = "new"
    /\ Len(held.v) > 0 /\ Len(ArrayAfter(how, held.v)) <= MaxAlloc
    /\ held' = ChangedArray(ArrayAfter(how, held.v))
    /\ last' = Outcome("caller", Ok)
    /\ UNCHANGED <<res, result, svc, gateVars, now, stores>>

\* ... or the array the service works on
CallerChangesStoreArray(how) ==
    /\ held.ref = "store"
    /\ \/ /\ svc = "reviews"
          /\ Len(reviews) > 0 /\ Len(ArrayAfter(how, reviews)) <= MaxAlloc
          /\ reviews' = ArrayAfter(how, reviews)
          /\ UNCHANGED <<reviewsNextId, products>>
       \/ /\ svc = "products"
          /\ Len(products) > 0 /\ Len(ArrayAfter(how, products)) <= MaxAlloc
          /\ products' = ArrayAfter(how, products)
          /\ UNCHANGED <<reviewsNextId, reviews>>
    /\ last' = Outcome("caller", Ok)
    /\ UNCHANGED <<res, result, svc, gateVars, now, held, itemVars, histVars, userVars, productsNextId,
                   orderVars, legacyItems>>

\* The controllers (src/src/itemsController.js, src/src/usersController.js):
\* one request handled by one controller method, the service call included.

\* res.status(err.statusCode || 500).json({ error: err.message }), always 500
caughtAs500(r) == [status |-> 500, error |-> r.msg, body |-> <<>>]

\* res.status(err.statusCode || 500).json({ error: err.message })
caught(r) == [status |-> StatusCode(r.err), error |-> r.msg, body |-> <<>>]

\* res.status(status).json(record); res.json(record) sends 200
json(status, record) == [status |-> status, error |-> "", body |-> <<record>>]

\* return res.status(status).json({ error: message }), the service not called
refuse(status, message) == [status |-> status, error |-> message, body |-> <<>>]

\* res.status(status).send()
send(status) == [status |-> status, error |-> "", body |-> <<>>]

NotCalled == [op |-> "none", err |-> NoError, msg |-> ""]

\* const id = Number(req.params.id)
NumberValue(v) == IF ToNumber(v) = NaN THEN JNaN ELSE JNum(ToNumber(v))

ItemsControllerGetById(id) ==
    /\ svc = Current
    /\ \E S \in {Load} : \E g \in {getById(S, id)} :
          /\ last' = Outcome("getById", g)
          /\ res' = IF g.err = NoError THEN json(200, At(S, g.k)) ELSE caught(g)
    /\ UNCHANGED <<result, svc, gateVars, now, held, stores>>

ItemsControllerCreate(name) ==
    /\ svc = Current
    /\ IF Falsy(name) \/ ~IsString(name) \/ Trim(name.s) = <<>>
       THEN /\ res' = refuse(400, "Name is required")
            /\ last' = NotCalled
            /\ UNCHANGED <<itemVars, histVars>>
       ELSE \E S \in {Load} : \E r \in {create(S, JStr(Trim(name.s)), now)} :
                /\ r.S.alloc <= MaxAlloc
                /\ Commit(r.S)
                /\ last' = Outcome("create", r)
                /\ res' = IF r.err = NoError THEN json(201, r.S.objs[r.oid]) ELSE caught(r)
    /\ UNCHANGED <<result, svc, gateVars, now, held, reviewVars, userVars, productVars, orderVars,
                   legacyItems>>

ItemsControllerUpdate(id, updates) ==
    /\ svc = Current
    /\ \E S \in {Load} : \E r \in {update(S, id, updates, now)} :
          /\ Commit(r.S)
          /\ last' = Outcome("update", r)
          /\ res' = IF r.err = NoError THEN json(200, r.S.objs[r.oid]) ELSE caught(r)
    /\ UNCHANGED <<result, svc, gateVars, now, held, reviewVars, userVars, productVars, orderVars,
                   legacyItems>>

ItemsControllerDelete(id) ==
    /\ svc = Current
    /\ IF ToNumber(id) = NaN
       THEN /\ res' = refuse(400, "Invalid id")
            /\ last' = NotCalled
            /\ UNCHANGED <<itemVars, histVars>>
       ELSE \E S \in {Load} : \E r \in {delete(S, NumberValue(id))} :
                /\ Commit(r.S)
                /\ last' = Outcome("delete", r)
                /\ res' = IF r.err = NoError THEN send(204) ELSE caught(r)
    /\ UNCHANGED <<result, svc, gateVars, now, held, reviewVars, userVars, productVars, orderVars,
                   legacyItems>>

UsersControllerCreate(data) ==
    /\ svc = "users"
    /\ IF Falsy(Field(data, "name")) \/ Falsy(Field(data, "email"))
       THEN /\ res' = refuse(400, "Name and email are required")
            /\ last' = NotCalled
            /\ UNCHANGED <<userVars, histVars>>
       ELSE \E r \in {users_create(users, usersNextId, data, now)} :
                /\ r.nextId <= MaxAlloc + 1
                /\ users' = r.db /\ usersNextId' = r.nextId
                /\ Assigned(r)
                /\ last' = Outcome("create", r)
                /\ res' = IF r.err = NoError THEN json(201, r.db[Len(r.db)]) ELSE caught(r)
    /\ UNCHANGED <<result, svc, gateVars, now, held, reviewVars, itemVars, productVars, orderVars,
                   legacyItems>>

UsersControllerUpdate(id, updates) ==
    /\ svc = "users"
    /\ \E r \in {users_update(users, usersNextId, id, updates, now)} :
          /\ users' = r.db /\ usersNextId' = r.nextId
          /\ last' = Outcome("update", r)
          /\ res' = IF r.err = NoError
                    THEN json(200, r.db[lookup(r.db, id).k])
                    ELSE caught(r)
    /\ UNCHANGED <<result, svc, gateVars, now, held, reviewVars, itemVars, histVars, productVars,
                   orderVars, legacyItems>>

UsersControllerDelete(id) ==
    /\ svc = "users"
    /\ \E r \in {users_delete(users, usersNextId, NumberValue(id))} :
          /\ users' = r.db /\ usersNextId' = r.nextId
          /\ Deleted(r)
          /\ last' = Outcome("delete", r)
          /\ res' = IF r.err = NoError THEN send(204) ELSE caught(r)
    /\ UNCHANGED <<result, svc, gateVars, now, held, reviewVars, itemVars, productVars, orderVars,
                   legacyItems>>

\* the clock advances between calls
Tick ==
    /\ now < MaxTime
    /\ now' = now + 1
    /\ UNCHANGED <<res, result, svc, gateVars, last, held, reviewVars, itemVars, histVars, userVars,
                   productVars, orderVars, legacyItems>>

---------------------------------------------------------------------------
(* logging.middleware.js: the module-level stores                         *)
(*                                                                         *)
(* Times are milliseconds of Date.now().  An endpoint is the pair          *)
(* <<method, path>> that endpointKey joins with a colon.                   *)

\* const rateLimitWindow = 60 * 1000; const maxRequests = 100, and the limits
\* of the priorities "critical" and "low"
rateLimitWindow == 60 * 1000
maxRequests == 100
CriticalMaxRequests == 200
LowMaxRequests == 50
\* const maxRequestSize = 10 * 1024 * 1024
maxRequestSize == 10 * 1024 * 1024
\* the thresholds of the circuit breaker
failureThreshold == 5
successThreshold == 2
openDuration == 60000

\* the clients, the methods and the paths of the requests followed
ClientIps == {"10.0.0.1", "10.0.0.2"}
ApiPath == "/api/items"
Endpoints == {<<method, ApiPath>> : method \in {"GET", "POST"}}
\* the instants at which a request can arrive
Instants ==
    {0, openDuration \div 2, rateLimitWindow, rateLimitWindow + 1,
     openDuration + openDuration \div 2}

\* a client requestCounts has no entry for, an endpoint without a breaker
NoEntry == [count |-> 0 - 1, resetTime |-> 0 - 1]
NoBreaker == [state |-> "none", failureCount |-> 0, successCount |-> 0, openUntil |-> 0]
Never == 0 - 1

\* the stores when the module has been loaded: requestCounts is an empty Map,
\* the black list and the white list are empty Sets, and
\* requestMetrics.circuitBreakers is yet to be made
ipBlacklist == {}
ipWhitelist == {}
AtLoad ==
    /\ requestCounts = [ip \in ClientIps |-> NoEntry]
    /\ circuitBreakers = [e \in Endpoints |-> NoBreaker]
    /\ admittedAt = [ip \in ClientIps |-> [t \in Instants |-> 0]]
    /\ inRow = [e \in Endpoints |-> 0]
    /\ openedAt = [e \in Endpoints |-> Never]
    /\ usedKeys = {}

---------------------------------------------------------------------------
(* Initial state: every service as its constructor leaves it *)

Services == {Current, Rev007, Rev008, "users", "products", "orders", Rev006, "reviews"}

Init ==
    /\ svc \in Services
    /\ now = 0
    /\ last = [op |-> "init", err |-> NoError, msg |-> ""]
    /\ items = <<[oid |-> 1, id |-> 1, name |-> FirstItem,
                  createdAt |-> 0, updatedAt |-> 0, status |-> "active"],
                 [oid |-> 2, id |-> 2, name |-> AnotherItem,
                  createdAt |-> 0, updatedAt |-> 0, status |-> "active"]>>
    /\ itemsNextId = 3
    /\ allocated = 2
    /\ maxAssigned = 2
    /\ idReused = FALSE
    /\ gone = {}
    /\ users = <<[id |-> 1, name |-> JohnDoe, email |-> JohnEmail, role |-> "user",
                  createdAt |-> 0, updatedAt |-> 0, status |-> "active"],
                 [id |-> 2, name |-> JaneSmith, email |-> JaneEmail, role |-> "admin",
                  createdAt |-> 0, updatedAt |-> 0, status |-> "active"]>>
    /\ usersNextId = 3
    /\ products = <<[id |-> 1, name |-> Laptop, price |-> 999990,
                     category |-> Electronics, stock |-> 15,
                     createdAt |-> 0, updatedAt |-> 0, status |-> "active"],
                    [id |-> 2, name |-> CoffeeMaker, price |-> 49990,
                     category |-> Appliances, stock |-> 30,
                     createdAt |-> 0, updatedAt |-> 0, status |-> "active"]>>
    /\ productsNextId = 3
    /\ orders = <<[id |-> 1, customerName |-> AliceJohnson, productId |-> 1000,
                   quantity |-> 2, total |-> 1999980, status |-> "pending",
                   createdAt |-> 0, updatedAt |-> 0],
                  [id |-> 2, customerName |-> BobSmith, productId |-> 2000,
                   quantity |-> 1, total |-> 49990, status |-> "completed",
                   createdAt |-> 0, updatedAt |-> 0]>>
    /\ ordersNextId = 3
    /\ legacyItems = <<[id |-> 1, name |-> JStr(FirstItem)],
                       [id |-> 2, name |-> JStr(AnotherItem)]>>
    /\ reviews = <<>>
    /\ reviewsNextId = 1
    /\ held = NothingHeld
    /\ res = NoResponse
    /\ result = NoResult
    /\ AtLoad

ItemsNext ==
    \/ \E name \in ItemNames : ItemCreate(name)
    \/ \E id \in ItemIds, updates \in ItemUpdates : ItemUpdate(id, updates)
    \/ \E id \in ItemDeleteIds : ItemDelete(id)
    \/ \E names \in NameLists : ItemBulkCreate(names)
    \/ \E updates \in UpdateLists : ItemBulkUpdate(updates)
    \/ \E ids \in IdLists : ItemBulkDelete(ids)
    \/ \E names \in NameLists, rollbackOnError \in BOOLEAN :
          ItemBulkCreateTransactional(names, rollbackOnError)
    \/ \E operations \in OperationLists : ItemBatchOperations(operations)
    \/ \E updates \in ValidatedUpdateLists : ItemBulkUpdateWithValidation(updates)
    \/ \E jsonData \in ImportTexts : ItemImportFromJSON(jsonData)

UsersNext ==
    \/ \E data \in UserData : UserCreate(data)
    \/ \E id \in UserUpdateIds, updates \in UserUpdates : UserUpdate(id, updates)
    \/ \E id \in DeleteIds : UserDelete(id)

ProductsNext ==
    \/ \E data \in ProductData : ProductCreate(data)
    \/ \E id \in UpdateIds, updates \in ProductUpdates : ProductUpdate(id, updates)
    \/ \E id \in DeleteIds : ProductDelete(id)

OrdersNext ==
    \/ \E data \in OrderData : OrderCreate(data)
    \/ \E id \in UpdateIds, updates \in OrderUpdates : OrderUpdate(id, updates)
    \/ \E id \in DeleteIds : OrderDelete(id)

LegacyNext ==
    \/ \E name \in LegacyNames : LegacyCreate(name)
    \/ \E id \in LegacyIds : LegacyDelete(id)

ReviewsNext ==
    \/ \E reviewData \in ReviewData : ReviewCreate(reviewData)
    \/ \E id \in ReviewIds, updates \in ReviewUpdates : ReviewUpdate(id, updates)
    \/ \E id \in ReviewIds : ReviewDelete(id)

StockNext ==
    \E productId \in AdjustIds, quantity \in AdjustQuantities :
        ProductAdjustStock(productId, quantity)

Next ==
    \/ ItemsNext
    \/ UsersNext
    \/ ProductsNext
    \/ OrdersNext
    \/ LegacyNext
    \/ ReviewsNext
    \/ StockNext

\* No method reads a timestamp back, so Spec holds the clock still.
Spec == Init /\ [][Next]_vars

\* The calls that write a record's fields, the clock advancing between them:
\* the single-record calls of the items service, a batch and an import that
\* create an item with a status of its own, and update and adjustStock of the
\* other services.
NextClock ==
    \/ Tick
    \/ \E name \in ItemNames : ItemCreate(name)
    \/ \E id \in ItemIds, updates \in ItemUpdates : ItemUpdate(id, updates)
    \/ \E id \in ItemDeleteIds : ItemDelete(id)
    \/ \E operations \in ClockOperationLists : ItemBatchOperations(operations)
    \/ \E jsonData \in ClockImportTexts : ItemImportFromJSON(jsonData)
    \/ \E id \in {JNum(1)}, updates \in UserUpdates : UserUpdate(id, updates)
    \/ \E id \in {JNum(1)}, updates \in ProductUpdates : ProductUpdate(id, updates)
    \/ \E id \in {JNum(1)}, updates \in OrderUpdates : OrderUpdate(id, updates)
    \/ \E productId \in {JNum(1)}, quantity \in AdjustQuantities :
          ProductAdjustStock(productId, quantity)

SpecClock == Init /\ [][NextClock]_vars

\* The queries, the caller's handling of the arrays they return, and the
\* calls that fill and empty the stores.
QueriesNext ==
    \/ \E id \in LookupIds : ItemGetById(id)
    \/ \E id \in LookupIds : UserGetById(id)
    \/ \E id \in LookupIds : ProductGetById(id)
    \/ \E id \in LookupIds : OrderGetById(id)
    \/ \E id \in LookupIds : ReviewGetById(id)
    \/ \E status \in StatusFilters : ItemGetAll(status)
    \/ \E status \in StatusFilters : UserGetAll(status)
    \/ \E status \in StatusFilters : OrderGetAll(status)
    \/ \E productId \in ProductIdFilters : ReviewGetAll(productId)
    \/ \E filters \in SearchFilters : ProductAdvancedSearch(filters)
    \/ \E query \in ItemQueries : ItemSearch(query)
    \/ \E query \in UserQueries : UserSearch(query)
    \/ \E how \in ArrayChanges : CallerChangesNewArray(how)
    \/ \E how \in ArrayChanges : CallerChangesStoreArray(how)

NextRead ==
    \/ QueriesNext
    \/ \E name \in {JStr(PaddedWidget)} : ItemCreate(name)
    \/ \E id \in {JNum(1), JNum(2)}, updates \in {[status |-> "archived"]} :
          ItemUpdate(id, updates)
    \/ \E id \in ItemDeleteIds : ItemDelete(id)
    \/ \E data \in {[name |-> JStr(Ann), email |-> JStr(NewEmail)]} : UserCreate(data)
    \/ \E id \in {JNum(1)}, updates \in {[name |-> JStr(Ann)]} : UserUpdate(id, updates)
    \/ \E id \in DeleteIds : UserDelete(id)
    \/ \E data \in {[name |-> JStr(PaddedWidget), price |-> JDec(19999)]} :
          ProductCreate(data)
    \/ \E id \in DeleteIds : ProductDelete(id)
    \/ \E data \in {[customerName |-> JStr(Carol), productId |-> JNum(1),
                      quantity |-> JNum(2), price |-> JDec(1005)]} : OrderCreate(data)
    \/ \E id \in {JNum(1)}, updates \in {[status |-> "shipped"]} : OrderUpdate(id, updates)
    \/ \E id \in DeleteIds : OrderDelete(id)
    \/ \E reviewData \in {[productId |-> JNum(1), userId |-> JNum(2), rating |-> JNum(5)]} :
          ReviewCreate(reviewData)
    \/ \E id \in ReviewIds : ReviewDelete(id)

SpecRead == Init /\ [][NextRead]_vars

\* The requests the items and users controllers handle.
NextHttp ==
    \/ \E id \in ParamIds : ItemsControllerGetById(id)
    \/ \E name \in ItemNames : ItemsControllerCreate(name)
    \/ \E id \in ParamIds, updates \in ItemUpdates : ItemsControllerUpdate(id, updates)
    \/ \E id \in ParamIds : ItemsControllerDelete(id)
    \/ \E data \in UserData : UsersControllerCreate(data)
    \/ \E id \in ParamIds, updates \in UserUpdates : UsersControllerUpdate(id, updates)
    \/ \E id \in ParamIds : UsersControllerDelete(id)

SpecHttp == Init /\ [][NextHttp]_vars

\* The decimal digits of n > 0, and the name "item n".
RECURSIVE Digits(_)
Digits(n) ==
    IF n = 0 THEN <<>>
    ELSE Append(Digits(n \div 10),
                <<"0", "1", "2", "3", "4", "5", "6", "7", "8", "9">>[(n % 10) + 1])
NumberedName(n) == <<"i", "t", "e", "m", " ">> \o Digits(n)

\* the items store after create("item 3"), ..., create("item n") on the
\* constructor's store
StoreOf(n) ==
    [i \in 1..n |->
        [oid |-> i, id |-> i,
         name |-> IF i = 1 THEN FirstItem ELSE IF i = 2 THEN AnotherItem
                  ELSE NumberedName(i),
         createdAt |-> 0, updatedAt |-> 0, status |-> "active"]]

\* The revision of part_007 on the constructor's store, or on a store that
\* creates have filled beyond the import limit.
InitExport ==
    /\ svc = Rev007
    /\ now = 0
    /\ last = [op |-> "init", err |-> NoError, msg |-> ""]
    /\ \E n \in {2, ImportLimit + 1} :
          /\ items = StoreOf(n)
          /\ itemsNextId = n + 1
          /\ allocated = n
          /\ maxAssigned = n
    /\ idReused = FALSE
    /\ gone = {}
    /\ users = <<>> /\ usersNextId = 1
    /\ products = <<>> /\ productsNextId = 1
    /\ orders = <<>> /\ ordersNextId = 1
    /\ legacyItems = <<>>
    /\ reviews = <<>> /\ reviewsNextId = 1
    /\ held = NothingHeld
    /\ res = NoResponse
    /\ result = NoResult
    /\ AtLoad

ExportNames ==
    {JStr(PaddedWidget), JStr(LowerFirstItem)} \cup {JStr(NumberedName(n)) : n \in 3..8}

NextExport ==
    \/ \E jsonData \in {exportToJSON(Load)} : ItemImportFromJSON(jsonData)
    \/ \E jsonData \in ExportImportTexts : ItemImportFromJSON(jsonData)
    \/ \E name \in ExportNames : ItemCreate(name)
    \/ \E id \in {JNum(1)}, updates \in {[status |-> "archived"]} : ItemUpdate(id, updates)

SpecExport == InitExport /\ [][NextExport]_vars

\* The sorted lists of the products and orders stores, and the calls that
\* fill and empty them as the clock advances.
NextSort ==
    \/ \E sortBy \in ProductSortBys, order \in SortOrders : ProductGetSorted(sortBy, order)
    \/ \E sortBy \in OrderSortBys, order \in SortOrders : OrderGetSorted(sortBy, order)
    \/ Tick
    \/ \E data \in {[name |-> JStr(PaddedWidget), price |-> JDec(19999)]} :
          ProductCreate(data)
    \/ \E id \in {JNum(1)} : ProductDelete(id)
    \/ \E data \in {[customerName |-> JStr(Carol), productId |-> JNum(1),
                      quantity |-> JNum(2), price |-> JDec(1005)]} : OrderCreate(data)
    \/ \E id \in {JNum(1)} : OrderDelete(id)

SpecSort == Init /\ [][NextSort]_vars

\* The pages of the items store, and the calls that fill and empty it.
NextPage ==
    \/ \E page \in PageNumbers, limit \in PageLimits, status \in StatusFilters :
          ItemGetPaginated(page, limit, status)
    \/ \E name \in {JStr(PaddedWidget)} : ItemCreate(name)
    \/ \E id \in {JNum(1), JNum(2)}, updates \in {[status |-> "archived"]} :
          ItemUpdate(id, updates)
    \/ \E id \in ItemDeleteIds : ItemDelete(id)

SpecPage == Init /\ [][NextPage]_vars

\* The calls of the revision of part_006 that change a product or its stock.
NextStock ==
    \/ \E productId \in StockIds, quantity \in StockAdjustments :
          ProductAdjustStock(productId, quantity)
    \/ \E data \in StockData : Rev006Create(data)
    \/ \E id \in StockIds, updates \in StockUpdates : Rev006Update(id, updates)
    \/ \E id \in StockIds : Rev006Delete(id)
    \/ \E productId \in StockIds, reorderPoint \in ReorderPoints :
          ProductSetReorderPoint(productId, reorderPoint)
    \/ \E productId \in StockIds, quantity \in ReserveQuantities :
          ProductReserveStock(productId, quantity)
    \/ \E productId \in StockIds, quantity \in ReserveQuantities :
          ProductReleaseStock(productId, quantity)

SpecStock == Init /\ [][NextStock]_vars

---------------------------------------------------------------------------
(* Properties *)

\* the record with id Number(id), or nothing
Target(db, id) == {k \in 1..Len(db) : db[k].id = ToNumber(id)}

\* C1: in every state reachable through create, update, delete, the bulk
\* calls, bulkCreateTransactional and batchOperations of the items service no
\* two stored items have the same id, and no call changes the id of an item
\* object that exists before and after it.
C1_IdsUniqueAndImmutable ==
    [][svc = Current =>
          /\ \A i, j \in 1..Len(items') : i # j => items'[i].id # items'[j].id
          /\ \A i \in 1..Len(items), j \in 1..Len(items') :
                items[i].oid = items'[j].oid => items[i].id = items'[j].id]_vars

\* a batch has created an item next to the seeds
C1_Witness ==
    /\ svc = Current
    /\ last.op = "batchOperations" /\ last.err = NoError
    /\ \E i \in 1..Len(items) : items[i].id = 3

\* C2: every id a service assigns is strictly greater than every id it
\* assigned before (the seeds included), so no id is assigned a second time,
\* not after deleting the last record and not after a rolled-back batch.
C2_IdsStrictlyIncreasing == ~idReused

\* C3: an update that fails with a ValidationError leaves the store, and so
\* the record it addressed, exactly as before the call.
C3_FailedUpdateChangesNothing ==
    [][(last'.op = "update" /\ last'.err = ValidationError) =>
          /\ items' = items
          /\ users' = users
          /\ products' = products
          /\ orders' = orders]_vars

\* C4: a batchOperations call in which an operation fails leaves this.items,
\* every field of every item, and nextId as they were before the call.
C4_FailedBatchRestoresStore ==
    [][(last'.op = "batchOperations" /\ last'.err # NoError) =>
          /\ items' = items
          /\ itemsNextId' = itemsNextId]_vars

\* C5: bulkCreateTransactional with rollback enabled, when creating a name of
\* the list fails, throws a ValidationError and leaves items and nextId as
\* before the call.
C5_RollbackThrowsValidationError ==
    [][\A names \in NameLists :
          (/\ ItemBulkCreateTransactional(names, TRUE)
           /\ last'.err # NoError) =>
              /\ last'.err = ValidationError
              /\ items' = items
              /\ itemsNextId' = itemsNextId]_vars

NoTwoAlike(db, f) ==
    \A i, j \in 1..Len(db) : i # j => ToLowerCase(db[i][f]) # ToLowerCase(db[j][f])

\* C6: in every reachable state no two items and no two products have names,
\* and no two users have emails, that are equal when letter case is ignored.
C6_NamesAndEmailsUnique ==
    /\ NoTwoAlike(items, "name")
    /\ NoTwoAlike(products, "name")
    /\ NoTwoAlike(users, "email")

\* updates carries nothing but field f, set to the value the record id has
\* now, in some letter case
OwnValue(db, id, updates, f) ==
    /\ DOMAIN updates = {f}
    /\ updates[f].t = "string"
    /\ \E k \in Target(db, id) :
          ToLowerCase(db[k][f]) = ToLowerCase(Trim(updates[f].s))

\* C7: update(id, {name: the record's own name}) succeeds for every existing
\* record and every form of its id that getById accepts, a number or a
\* numeric string; likewise update(id, {email: the user's own email}).
C7_UpdateExcludesSelf ==
    [][last'.op = "update" =>
          /\ \A id \in ItemIds, updates \in ItemUpdates :
                (ItemUpdate(id, updates) /\ OwnValue(items, id, updates, "name"))
                    => last'.err = NoError
          /\ \A id \in UserUpdateIds, updates \in UserUpdates :
                (UserUpdate(id, updates) /\ OwnValue(users, id, updates, "email"))
                    => last'.err = NoError
          /\ \A id \in UpdateIds, updates \in ProductUpdates :
                (ProductUpdate(id, updates) /\ OwnValue(products, id, updates, "name"))
                    => last'.err = NoError]_vars

\* update(id, updates) took db to db2 and touched, of the record id, only the
\* fields named by updates, updatedAt and those of derived
Frame(db, db2, id, updates, derived) ==
    /\ Len(db2) = Len(db)
    /\ \A k \in 1..Len(db) :
          IF k \in Target(db, id)
          THEN /\ DOMAIN db2[k] = DOMAIN db[k]
               /\ \A f \in DOMAIN db[k] \ (DOMAIN updates \cup {"updatedAt"} \cup derived) :
                     db2[k][f] = db[k][f]
          ELSE db2[k] = db[k]

\* the fields update recomputes from the fields of the payload
DerivedFields(updates) == IF "quantity" \in DOMAIN updates THEN {"total"} ELSE {}

\* C8 (as amended): a successful update changes, of the record it addresses,
\* only the fields present in the payload, updatedAt and, for an order whose
\* payload carries quantity, total; every other record is unchanged.
C8_UpdateFrameWithTotal ==
    [][(last'.op = "update" /\ last'.err = NoError) =>
          /\ \A id \in ItemIds, updates \in ItemUpdates :
                ItemUpdate(id, updates) => Frame(items, items', id, updates, {})
          /\ \A id \in UserUpdateIds, updates \in UserUpdates :
                UserUpdate(id, updates) => Frame(users, users', id, updates, {})
          /\ \A id \in UpdateIds, updates \in ProductUpdates :
                ProductUpdate(id, updates) => Frame(products, products', id, updates, {})
          /\ \A id \in UpdateIds, updates \in OrderUpdates :
                OrderUpdate(id, updates) =>
                    Frame(orders, orders', id, updates, DerivedFields(updates))]_vars

\* an order's quantity has been updated
C8_Witness ==
    /\ svc = "orders"
    /\ last.op = "update" /\ last.err = NoError
    /\ \E k \in 1..Len(orders) : orders[k].quantity = 3

\* C8 (as stated): a successful update changes only the fields present in
\* the payload and updatedAt; an order's total stays when the payload carries
\* only quantity.
C8_UpdateFrame ==
    [][(last'.op = "update" /\ last'.err = NoError) =>
          /\ \A id \in ItemIds, updates \in ItemUpdates :
                ItemUpdate(id, updates) => Frame(items, items', id, updates, {})
          /\ \A id \in UserUpdateIds, updates \in UserUpdates :
                UserUpdate(id, updates) => Frame(users, users', id, updates, {})
          /\ \A id \in UpdateIds, updates \in ProductUpdates :
                ProductUpdate(id, updates) => Frame(products, products', id, updates, {})
          /\ \A id \in UpdateIds, updates \in OrderUpdates :
                OrderUpdate(id, updates) => Frame(orders, orders', id, updates, {})]_vars

\* value is a string that, trimmed, equals field f of a stored record when
\* letter case is ignored
Duplicates(db, f, value) ==
    /\ value.t = "string"
    /\ \E k \in 1..Len(db) : ToLowerCase(db[k][f]) = ToLowerCase(Trim(value.s))

\* the fields create validates before it looks for a duplicate are valid
UserFieldsValid(data) == users_validateName(Field(data, "name")).err = NoError

ProductFieldsValid(data) ==
    /\ validatePrice(Field(data, "price")).err = NoError
    /\ "stock" \in DOMAIN data => validateStock(data.stock).err = NoError

\* the call threw a ValidationError; its message is "already exists" when
\* sayIt holds; store and counter are untouched
Rejected(sayIt, db, db2, nextId, nextId2) ==
    /\ last'.err = ValidationError
    /\ sayIt => last'.msg = "already exists"
    /\ db2 = db
    /\ nextId2 = nextId

\* C9 (as amended): a create whose name (items, products) or email (users)
\* duplicates a stored record throws a ValidationError and leaves the store
\* and the id counter unchanged; the message says "already exists" when the
\* fields validated before the duplicate check (a user's name, a product's
\* price and stock) are valid.
C9_DuplicateCreateRejectedWhenElseValid ==
    [][last'.op = "create" =>
          /\ \A name \in ItemNames :
                (ItemCreate(name) /\ Duplicates(items, "name", name)) =>
                    Rejected(TRUE, items, items', itemsNextId, itemsNextId')
          /\ \A data \in UserData :
                (UserCreate(data) /\ Duplicates(users, "email", Field(data, "email"))) =>
                    Rejected(UserFieldsValid(data), users, users',
                             usersNextId, usersNextId')
          /\ \A data \in ProductData :
                (ProductCreate(data) /\ Duplicates(products, "name", Field(data, "name"))) =>
                    Rejected(ProductFieldsValid(data), products, products',
                             productsNextId, productsNextId')]_vars

\* a user with a taken email has been refused
C9_Witness ==
    /\ svc = "users"
    /\ last.op = "create" /\ last.msg = "already exists"
    /\ usersNextId = 3

\* C9 (as stated): every such create throws a ValidationError whose message
\* says "already exists", and leaves the store and the id counter unchanged.
C9_DuplicateCreateRejected ==
    [][last'.op = "create" =>
          /\ \A name \in ItemNames :
                (ItemCreate(name) /\ Duplicates(items, "name", name)) =>
                    Rejected(TRUE, items, items', itemsNextId, itemsNextId')
          /\ \A data \in UserData :
                (UserCreate(data) /\ Duplicates(users, "email", Field(data, "email"))) =>
                    Rejected(TRUE, users, users', usersNextId, usersNextId')
          /\ \A data \in ProductData :
                (ProductCreate(data) /\ Duplicates(products, "name", Field(data, "name"))) =>
                    Rejected(TRUE, products, products',
                             productsNextId, productsNextId')]_vars

\* C10: in every reachable state the status of every stored item, user,
\* product and order belongs to the fixed set of its entity.
C10_StatusInFixedSet ==
    /\ \A i \in 1..Len(items) : items[i].status \in ItemStatuses
    /\ \A i \in 1..Len(users) : users[i].status \in UserStatuses
    /\ \A i \in 1..Len(products) : products[i].status \in ProductStatuses
    /\ \A i \in 1..Len(orders) : orders[i].status \in OrderStatuses

\* a batch has created an item and given it a status of its own
C10_Witness ==
    /\ svc = Current
    /\ last.op = "batchOperations" /\ last.err = NoError
    /\ \E i \in 1..Len(items) : items[i].id >= 3 /\ items[i].status = "archived"

\* the record with id n is not found by getById of the service followed
NotFoundNow(n) ==
    CASE svc \in {Current, Rev007} -> getById(Load, JNum(n)).err = NotFoundError
      [] svc = "users" -> lookup(users, JNum(n)).err = NotFoundError
      [] svc = "products" -> lookup(products, JNum(n)).err = NotFoundError
      [] svc = "orders" -> lookup(orders, JNum(n)).err = NotFoundError
      [] OTHER -> TRUE

\* db without the record whose id is n, the others in their order
Without(db, n) == SelectSeq(db, LAMBDA rec : rec.id # n)

\* the call r = delete(id) returned id and took db to db2 by removing that record
DeletedFrom(db, db2, id, r) ==
    /\ r.err = NoError
    /\ r.id = ToNumber(id)
    /\ db2 = Without(db, ToNumber(id))

\* C11: delete(id) of an id that is in the store succeeds, returns that id
\* and removes that record only, the others keeping their order; from then on
\* getById(id) fails with NotFoundError after every later call.
C11_DeletedStaysDeleted ==
    [][/\ \A n \in gone' : NotFoundNow(n)'
       /\ last'.op = "delete" =>
             /\ \A id \in ItemDeleteIds :
                   (ItemDelete(id) /\ Target(items, id) # {}) =>
                       DeletedFrom(items, items', id, delete(Load, id))
             /\ \A id \in DeleteIds :
                   (UserDelete(id) /\ Target(users, id) # {}) =>
                       DeletedFrom(users, users', id, users_delete(users, usersNextId, id))
             /\ \A id \in DeleteIds :
                   (ProductDelete(id) /\ Target(products, id) # {}) =>
                       DeletedFrom(products, products', id,
                                   products_delete(products, productsNextId, id))
             /\ \A id \in DeleteIds :
                   (OrderDelete(id) /\ Target(orders, id) # {}) =>
                       DeletedFrom(orders, orders', id,
                                   orders_delete(orders, ordersNextId, id))]_vars

\* item 1 was deleted, and an item was created after that
C11_Witness ==
    /\ svc = Current
    /\ 1 \in gone
    /\ last.op = "create" /\ last.err = NoError

\* id is numeric and no record of db has it
AbsentIn(db, id) == ToNumber(id) # NaN /\ Target(db, id) = {}

\* the call failed with a not-found error and db2 is db
NotFoundAndUntouched(db, db2) ==
    /\ StatusCode(last'.err) = 404
    /\ last'.msg \in {"not found", "Review not found"}
    /\ db2 = db

\* C12: delete(id) with a numeric id that no record has fails with a
\* not-found error whose message says "not found" and leaves the store as it
\* was, in the current services, the reviews service and the earliest
\* revision of the items service.
C12_DeleteOfAbsentIdFails ==
    [][last'.op = "delete" =>
          /\ \A id \in ItemDeleteIds :
                (ItemDelete(id) /\ AbsentIn(items, id)) => NotFoundAndUntouched(items, items')
          /\ \A id \in DeleteIds :
                (UserDelete(id) /\ AbsentIn(users, id)) => NotFoundAndUntouched(users, users')
          /\ \A id \in DeleteIds :
                (ProductDelete(id) /\ AbsentIn(products, id)) =>
                    NotFoundAndUntouched(products, products')
          /\ \A id \in DeleteIds :
                (OrderDelete(id) /\ AbsentIn(orders, id)) =>
                    NotFoundAndUntouched(orders, orders')
          /\ \A id \in ReviewIds :
                (ReviewDelete(id) /\ AbsentIn(reviews, id)) =>
                    NotFoundAndUntouched(reviews, reviews')
          /\ \A id \in LegacyIds :
                (LegacyDelete(id) /\ AbsentIn(legacyItems, id)) =>
                    NotFoundAndUntouched(legacyItems, legacyItems')]_vars

\* getById(id) on db returns the record rec
Finds(db, id, rec) ==
    \E g \in {lookup(db, id)} : g.err = NoError /\ db[g.k] = rec

\* C13: right after a successful create returned a record, getById of the
\* record's id returns a record equal to it in every field.
C13_CreateThenGetById ==
    [][(last'.op = "create" /\ last'.err = NoError) =>
          /\ \A name \in ItemNames :
                ItemCreate(name) =>
                    \E r \in {create(Load, name, now)} :
                    \E g \in {getById(Load', JNum(r.id))} :
                        g.err = NoError /\ items'[g.k] = r.S.objs[r.oid]
          /\ \A data \in UserData :
                UserCreate(data) =>
                    \E r \in {users_create(users, usersNextId, data, now)} :
                        Finds(users', JNum(r.id), r.db[Len(r.db)])
          /\ \A data \in ProductData :
                ProductCreate(data) =>
                    \E r \in {products_create(products, productsNextId, data, now)} :
                        Finds(products', JNum(r.id), r.db[Len(r.db)])
          /\ \A data \in OrderData :
                OrderCreate(data) =>
                    \E r \in {orders_create(orders, ordersNextId, data, now)} :
                        Finds(orders', JNum(r.id), r.db[Len(r.db)])]_vars

\* create has returned the item with id 3
C13_Witness ==
    /\ svc = Current
    /\ last.op = "create" /\ last.err = NoError
    /\ \E i \in 1..Len(items) : items[i].id = 3 /\ items[i].name = Widget

\* the positions of a list as a set
Positions(list) == {list[i] : i \in 1..Len(list)}

\* r reports every one of n input positions once, as done or as failed
Partitions(r, n) ==
    /\ r.err = NoError
    /\ Positions(r.done) \cup Positions(r.errors) = 1..n
    /\ Positions(r.done) \cap Positions(r.errors) = {}
    /\ Len(r.done) + Len(r.errors) = n

\* the single call that a bulk method of the kind makes for the element e
Single(kind, S, e, t) ==
    CASE kind = "create" -> create(S, e, t)
      [] kind = "update" -> update(S, Field(e, "id"), e, t)
      [] kind = "delete" -> delete(S, e)

\* the store after the single calls for the elements of list, one by one,
\* whatever each of them throws
RECURSIVE OneByOne(_, _, _, _)
OneByOne(kind, S, list, t) ==
    IF list = <<>> THEN S
    ELSE OneByOne(kind, Single(kind, S, Head(list), t).S, Tail(list), t)

\* items and nextId of the next state are those of the heap S
Leaves(S) ==
    /\ items' = [i \in 1..Len(S.list) |-> S.objs[S.list[i]]]
    /\ itemsNextId' = S.nextId

\* C14: bulkCreate, bulkUpdate and bulkDelete of an accepted array return,
\* report every input position exactly once as a success or as an error, and
\* leave the store that the single calls, made one by one in input order,
\* leave.
C14_BulkProcessesEveryIndex ==
    [][last'.op \in {"bulkCreate", "bulkUpdate", "bulkDelete"} =>
          /\ \A names \in NameLists :
                (ItemBulkCreate(names) /\ bulkGuard(names).err = NoError) =>
                    /\ Partitions(bulkCreate(Load, names, now), Len(names.v))
                    /\ Leaves(OneByOne("create", Load, names.v, now))
          /\ \A updates \in UpdateLists :
                (ItemBulkUpdate(updates) /\ bulkGuard(updates).err = NoError) =>
                    /\ Partitions(bulkUpdate(Load, updates, now), Len(updates.v))
                    /\ Leaves(OneByOne("update", Load, updates.v, now))
          /\ \A ids \in IdLists :
                (ItemBulkDelete(ids) /\ bulkGuard(ids).err = NoError) =>
                    /\ Partitions(bulkDelete(Load, ids), Len(ids.v))
                    /\ Leaves(OneByOne("delete", Load, ids.v, now))]_vars

\* list is not an array, is empty, or has more than 100 elements
BadList(list) == ~IsArray(list) \/ Len(list.v) = 0 \/ Len(list.v) > 100

\* the call threw a ValidationError and left items and nextId as they were
Refused ==
    /\ last'.err = ValidationError
    /\ items' = items
    /\ itemsNextId' = itemsNextId

\* C15: bulkCreate, bulkUpdate, bulkDelete, bulkCreateTransactional and
\* batchOperations, handed something that is not an array, an empty array or
\* an array of more than 100 elements, throw a ValidationError and create,
\* change and delete nothing; nextId stays.
C15_BadListRefused ==
    [][last'.op \in {"bulkCreate", "bulkUpdate", "bulkDelete",
                     "bulkCreateTransactional", "batchOperations"} =>
          /\ \A names \in NameLists :
                (BadList(names) /\ ItemBulkCreate(names)) => Refused
          /\ \A updates \in UpdateLists :
                (BadList(updates) /\ ItemBulkUpdate(updates)) => Refused
          /\ \A ids \in IdLists :
                (BadList(ids) /\ ItemBulkDelete(ids)) => Refused
          /\ \A names \in NameLists, rollbackOnError \in BOOLEAN :
                (BadList(names) /\ ItemBulkCreateTransactional(names, rollbackOnError))
                    => Refused
          /\ \A operations \in OperationLists :
                (BadList(operations) /\ ItemBatchOperations(operations)) => Refused]_vars

\* a batch of 101 operations has been refused after an item was deleted
C15_Witness ==
    /\ svc = Current
    /\ last.op = "batchOperations" /\ last.msg = "more than 100"
    /\ Len(items) = 1

\* C16: every error a service call throws carries status 400 or 404; no
\* call ends with an error that the controller answers with 500.
C16_EveryErrorIsClassified ==
    last.err # NoError => StatusCode(last.err) \in {400, 404}

\* every record of db has updatedAt >= createdAt
Stamped(db) == \A k \in 1..Len(db) : db[k].updatedAt >= db[k].createdAt

\* the records that db and db2 both hold, told by field key, have in db2 the
\* createdAt they have in db
SameCreatedAt(db, db2, key) ==
    \A i \in 1..Len(db), j \in 1..Len(db2) :
        db[i][key] = db2[j][key] => db2[j].createdAt = db[i].createdAt

OtherFields(rec) == [rec EXCEPT !.updatedAt = 0]

\* the records that db and db2 both hold, told by field key, and that differ
\* in a field other than updatedAt have in db2 the updatedAt t
Restamped(db, db2, key, t) ==
    \A i \in 1..Len(db), j \in 1..Len(db2) :
        (db[i][key] = db2[j][key] /\ OtherFields(db[i]) # OtherFields(db2[j]))
            => db2[j].updatedAt = t

\* C18: a call that changes a field of a stored record also sets the
\* record's updatedAt to the time of the call, in update (also when it
\* throws), adjustStock, importFromJSON and batchOperations.
C18_ChangeRefreshesUpdatedAt ==
    [][/\ Restamped(items, items', "oid", now)
       /\ Restamped(users, users', "id", now)
       /\ Restamped(products, products', "id", now)
       /\ Restamped(orders, orders', "id", now)]_vars

\* C19: whatever the caller does to an array that a list query returned, the
\* store of every service stays as it is, and so does what getAll, getById
\* and getStats return afterwards.
C19_ReturnedArrayIsACopy ==
    [][last'.op = "caller" => UNCHANGED stores]_vars

\* getById(id) on db gave r: the record with that id, 404 when the id is
\* numeric and no record has it, 400 when the id is not numeric
Looked(db, id, r) ==
    IF ToNumber(id) = NaN THEN StatusCode(r.err) = 400
    ELSE IF Target(db, id) = {} THEN StatusCode(r.err) = 404
    ELSE r.err = NoError /\ db[r.k].id = ToNumber(id)

\* C20: getById of every service returns the record that has the id, fails
\* with status 404 when the id is numeric and no record has it, and with
\* status 400 when the id is not numeric; the store is unchanged.
C20_GetByIdThreeWays ==
    [][last'.op = "getById" =>
          /\ UNCHANGED stores
          /\ \A id \in LookupIds :
                /\ ItemGetById(id) => Looked(items, id, getById(Load, id))
                /\ UserGetById(id) => Looked(users, id, lookup(users, id))
                /\ ProductGetById(id) => Looked(products, id, lookup(products, id))
                /\ OrderGetById(id) => Looked(orders, id, lookup(orders, id))
                /\ ReviewGetById(id) =>
                      Looked(reviews, id, reviews_getById(reviews, id))]_vars


\* the letters a and b are the same when case is ignored
SameLetter(a, b) ==
    \/ a = b
    \/ \E i \in 1..Len(UpperCase) : {a, b} = {UpperCase[i], LowerCase[i]}

\* q stands somewhere in text, case ignored
Contains(text, q) ==
    \E k \in 0..(Len(text) - Len(q)) : \A j \in 1..Len(q) : SameLetter(text[k + j], q[j])

\* the records of db one of whose fields contains the query, in their order;
\* none for a query that is not a string or is empty
Matching(db, query, fields) ==
    IF query.t = "string" /\ query.s # <<>>
    THEN SelectSeq(db, LAMBDA rec : \E f \in fields : Contains(rec[f], query.s))
    ELSE <<>>

\* C21: search(query) returns exactly the stored records one of whose
\* searched text fields (name for items; name or email for users) contains
\* the query when case is ignored; for an empty, null or non-string query it
\* returns an empty list; it never throws and never changes a store.
C21_SearchFindsSubstrings ==
    [][last'.op = "search" =>
          /\ last'.err = NoError
          /\ UNCHANGED stores
          /\ \A query \in ItemQueries :
                ItemSearch(query) => held'.v = Matching(items, query, {"name"})
          /\ \A query \in UserQueries :
                UserSearch(query) => held'.v = Matching(users, query, {"name", "email"})]_vars

\* a search found the created item Widget, and only it
C21_Witness ==
    /\ svc = Current
    /\ last.op = "search"
    /\ Len(held.v) = 1 /\ held.v[1].name = Widget /\ Len(items) = 3

\* the records of a come in the order in which they were created
InCreationOrder(a, key) == \A i, j \in 1..Len(a) : i < j => a[i][key] < a[j][key]

\* C22: the list a caller got from getAll (with or without a filter) or from
\* search holds its records in the order in which they were created, after
\* any creates, updates and deletes, in the items, users and orders services.
C22_ListsKeepCreationOrder ==
    (held.ref = "new" /\ last.op \in {"getAll", "search"}) =>
        CASE svc = Current -> InCreationOrder(held.v, "oid")
          [] svc \in {"users", "orders"} -> InCreationOrder(held.v, "id")
          [] OTHER -> TRUE

\* getAll("archived") listed the updated item 2 before an item created after
\* item 1 was deleted and archived afterwards
C22_Witness ==
    /\ svc = Current
    /\ last.op = "getAll" /\ held.ref = "new"
    /\ Len(held.v) = 2 /\ held.v[1].id = 2 /\ held.v[2].id = 3
    /\ held.v[1].status = "archived" /\ Len(items) = 2


\* the record the service created: the last of the store it was pushed to
Created == IF svc = Current THEN items'[Len(items')] ELSE users'[Len(users')]

Extends(db, db2, n) ==
    /\ Len(db2) = Len(db) + n
    /\ \A i \in 1..Len(db) : db2[i] = db[i]

\* C24: bulkCreateTransactional with rollbackOnError false throws or returns
\* what bulkCreate does on the same names in the same state, created and
\* errors lists included, and leaves the store as bulkCreate does; bulkCreate
\* keeps every record that was there and every record it created.
C24_RollbackIsOptIn ==
    [][   /\ last'.op = "bulkCreateTransactional" =>
                \A names \in NameLists :
                    ItemBulkCreateTransactional(names, FALSE) =>
                        \E b \in {bulkCreate(Load, names, now)} :
                            /\ last'.err = b.err
                            /\ result' = returnedLists(b)
                            /\ Load' = b.S
          /\ last'.op = "bulkCreate" =>
                Extends(items, items', Len(result'.created))]_vars

\* without rollback, the first of two names was created and the second refused
C24_Witness ==
    /\ last.op = "bulkCreateTransactional" /\ last.err = NoError
    /\ result.created = <<1>> /\ result.errors = <<2>>
    /\ Len(items) = 3


\* C25: no stored product has a price of zero or less: create and update
\* reject every price that is not a positive number.
C25_PricesArePositive ==
    \A i \in 1..Len(products) : products[i].price > 0


\* C26: every product has 0 <= reservedStock <= stock, so getAvailableStock
\* is never negative, whatever reserveStock, releaseStock, adjustStock,
\* update and create calls came before.
C26_ReservedWithinStock ==
    svc = Rev006 =>
        \A k \in 1..Len(products) :
            /\ 0 <= reservedOf(products[k])
            /\ reservedOf(products[k]) <= products[k].stock
            /\ getAvailableStock(products, JNum(products[k].id)) >= 0

\* C28: checkDataIntegrity() reports isValid = true in every state the
\* public operations reach from the constructor's store.
C28_DataIntegrityHolds ==
    svc = Rev006 => checkDataIntegrity(products)

\* the ids of the products in a list
IdsOf(list) == {list[k].id : k \in 1..Len(list)}

\* C30: getProductsNeedingReorder returns the products listed in
\* getInventorySummary().needsReorder and no others, and a product for which
\* setReorderPoint has just returned needsReorder = true is among them.
C30_ReorderViewsAgree ==
    [][   /\ IdsOf(getProductsNeedingReorder(products')) = IdsOf(needsReorder(products'))
          /\ last'.op = "setReorderPoint" =>
                \A productId \in StockIds, reorderPoint \in ReorderPoints :
                    ProductSetReorderPoint(productId, reorderPoint) =>
                        \E r \in {setReorderPoint(products, productsNextId, productId,
                                                   reorderPoint, now)} :
                            (r.err = NoError /\ r.needsReorder) =>
                                r.id \in IdsOf(getProductsNeedingReorder(products'))]_vars


\* the entry e of an update list is one that update would refuse: its id is
\* missing or unknown, its name or status is invalid, or its name is that of
\* another record
InvalidEntry(S, e, t) == Single("update", S, e, t).err # NoError

\* C27: bulkUpdateWithValidation validates everything before it applies
\* anything: with an invalid entry in the list it returns the per-index errors
\* with successCount 0 and changes no record; otherwise it applies every entry
\* and none fails part-way.
C27_ValidateAllThenApply ==
    [][last'.op = "bulkUpdateWithValidation" =>
          \A updates \in ValidatedUpdateLists :
              (ItemBulkUpdateWithValidation(updates) /\ bulkGuard(updates).err = NoError) =>
                  \E r \in {bulkUpdateWithValidation(Load, updates, now)} :
                      /\ r.err = NoError
                      /\ IF \E k \in 1..Len(updates.v) : InvalidEntry(Load, updates.v[k], now)
                         THEN /\ r.done = <<>>
                              /\ r.errors # <<>>
                              /\ items' = items
                         ELSE /\ r.errors = <<>>
                              /\ Len(r.done) = Len(updates.v)
                              /\ Leaves(OneByOne("update", Load, updates.v, now))]_vars


\* C29: every order's total is the number price * quantity rounded to two
\* decimals, never undefined or NaN: for the seeded orders, for created
\* ones and after every update that changes quantity.
C29_TotalIsPriceTimesQuantity ==
    svc = "orders" =>
        \A k \in 1..Len(orders) :
            /\ orders[k].total # NaN
            /\ orders[k].total = totalOf(orders[k], orders[k].quantity)


\* the records of the pages from to last, one page after the other
RECURSIVE PagesFrom(_, _, _, _, _)
PagesFrom(db, from, to, limit, status) ==
    IF from > to THEN <<>>
    ELSE getPaginated(db, JNum(from), limit, status).v
            \o PagesFrom(db, from + 1, to, limit, status)

\* C31: getPaginated partitions the filtered list: the limit is within
\* 1..100 and the page at least 1, a page holds at most limit records, the
\* pages 1..totalPages one after the other are the filtered records in
\* insertion order, and hasNext says that a later page holds a record.
C31_PagesPartitionTheList ==
    last.op = "getPaginated" =>
        /\ held.pagination.limit >= Thousand
        /\ held.pagination.limit <= 100 * Thousand
        /\ held.pagination.page >= Thousand
        /\ Len(held.v) * Thousand <= held.pagination.limit
        /\ PagesFrom(items, 1, held.pagination.totalPages, last.args.limit, last.args.status)
              = getAll(items, last.args.status).v
        /\ held.pagination.hasNext <=>
              \E q \in 1..(held.pagination.totalPages + 1) :
                  /\ q * Thousand > held.pagination.page
                  /\ getPaginated(items, JNum(q), last.args.limit, last.args.status).v # <<>>


\* of n positions, each stands for one record of imported or is held once by
\* exactly one of the lists errors and skipped
ThreeWaySplit(imported, errors, skipped, n) ==
    /\ Len(imported) + Len(errors) + Len(skipped) = n
    /\ \A k \in 1..n :
          Cardinality({j \in 1..Len(errors) : errors[j] = k})
            + Cardinality({j \in 1..Len(skipped) : skipped[j] = k}) <= 1
    /\ \A j \in 1..Len(errors) : errors[j] \in 1..n
    /\ \A j \in 1..Len(skipped) : skipped[j] \in 1..n

\* what the import of jsonData left: every position in one of the three
\* lists and, when own says so, every element skipped and the store as it was
ImportedAs(jsonData, own) ==
    /\ last'.err = NoError =>
          ThreeWaySplit(result'.created, result'.errors, result'.skipped, Len(jsonData.v))
    /\ own => /\ last'.err = NoError
              /\ result'.created = <<>> /\ result'.errors = <<>>
              /\ Len(result'.skipped) = Len(items)
              /\ items' = items /\ itemsNextId' = itemsNextId

\* C32 (as stated): importFromJSON(exportToJSON()) on a non-empty store
\* creates nothing, reports every element as skipped and leaves the store
\* and nextId as they were; every imported position lands in exactly one of
\* imported, errors and skipped.
C32_ImportOfExportIsANoOp ==
    [][last'.op = "importFromJSON" =>
          \E export \in {exportToJSON(Load)} :
              \A jsonData \in ExportImportTexts \cup {export} :
                  ItemImportFromJSON(jsonData) =>
                      ImportedAs(jsonData, jsonData = export /\ Len(items) > 0)]_vars

\* C32 (amended): the same for a store of at most 1000 items; the import of
\* the export of any store leaves the store and nextId as they were.
C32_ImportOfExportIsSkipped ==
    [][last'.op = "importFromJSON" =>
          \E export \in {exportToJSON(Load)} :
              \A jsonData \in ExportImportTexts \cup {export} :
                  ItemImportFromJSON(jsonData) =>
                      /\ ImportedAs(jsonData, /\ jsonData = export
                                              /\ Len(items) > 0
                                              /\ Len(items) <= ImportLimit)
                      /\ jsonData = export =>
                            items' = items /\ itemsNextId' = itemsNextId]_vars

C32_Witness ==
    /\ last.op = "importFromJSON" /\ last.err = NoError
    /\ Len(items) > 0
    /\ result = [created |-> <<>>, errors |-> <<>>,
                 skipped |-> [k \in 1..Len(items) |-> k]]


\* list holds every record of db exactly once
SameRecords(list, db) ==
    /\ Len(list) = Len(db)
    /\ \A k \in 1..Len(db) : Cardinality({j \in 1..Len(list) : list[j] = db[k]}) = 1

\* no record of list goes after one that the order puts behind it
OrderedBy(list, sortBy, order) ==
    \A i, j \in 1..Len(list) : i < j => ~GoesBefore(list[j], list[i], sortBy, order)

\* C33: getSorted returns every stored record exactly once, ordered by the
\* requested field, ascending when no order is given, and leaves the stores
\* as they were; an unknown field or order fails with ValidationError.
C33_SortedByFieldAscendingByDefault ==
    [][last'.op = "getSorted" =>
          \E db \in {IF svc = "products" THEN products ELSE orders},
             fields \in {IF svc = "products" THEN ProductSortFields ELSE OrderSortFields},
             sortBy \in {IF last'.args.sortBy.t # "undefined" THEN last'.args.sortBy
                         ELSE IF svc = "products" THEN JWord("name")
                         ELSE JWord("createdAt")},
             order \in {last'.args.order} :
              /\ UNCHANGED stores
              /\ IF /\ sortBy.t = "word" /\ sortBy.w \in fields
                    /\ \/ order.t = "undefined"
                       \/ order.t = "word" /\ LowerWord(order.w) \in {"asc", "desc"}
                 THEN /\ last'.err = NoError
                      /\ SameRecords(held'.v, db)
                      /\ OrderedBy(held'.v, sortBy.w,
                                   IF order.t = "undefined" THEN "asc"
                                   ELSE LowerWord(order.w))
                 ELSE last'.err = ValidationError]_vars

---------------------------------------------------------------------------
(* logging.middleware.js: loggingMiddleware(req, res, next)                *)
(*                                                                         *)
(* A request is [ip, method, path, priority, big, agent, key]: priority is *)
(* the header x-priority ("" when absent), big says that content-length   *)
(* is above maxRequestSize, agent that a User-Agent header is sent, key    *)
(* is the header idempotency-key ("" when absent).  The handlers of this   *)
(* repository answer before they return, so one action is the middleware   *)
(* together with the answer of the handler it called, if it called one.    *)

GateSvc == "logging.middleware"

\* req.path.startsWith("/api"), for the paths followed
IsApi(path) == path = ApiPath

\* priority.toLowerCase(), for the words sent as a priority
LowerPriority(word) ==
    CASE word = "CRITICAL" -> "critical"
      [] word = "Low" -> "low"
      [] OTHER -> word

validPriorities == {"low", "normal", "high", "critical"}

\* req.priority as the priority handling leaves it
priorityOf(req) ==
    IF ~IsApi(req.path) THEN "normal"
    ELSE LET priority == IF req.priority = "" THEN "normal" ELSE req.priority
         IN  IF LowerPriority(priority) \in validPriorities
             THEN LowerPriority(priority)
             ELSE "normal"

\* Math.ceil(ms / 1000)
CeilSeconds(ms) == 0 - ((0 - ms) \div 1000)

effectiveMaxRequests(priority) ==
    CASE priority = "critical" -> CriticalMaxRequests
      [] priority = "low" -> LowMaxRequests
      [] OTHER -> maxRequests

\* The rate limiting of one request of clientIp at time t: the entry is
\* made or reset, then the request is refused or counted.
rateLimit(counts, clientIp, priority, t) ==
    LET made == IF counts[clientIp] = NoEntry
                THEN [count |-> 0, resetTime |-> t + rateLimitWindow]
                ELSE counts[clientIp]
        ipData == IF t > made.resetTime
                  THEN [count |-> 0, resetTime |-> t + rateLimitWindow]
                  ELSE made
    IN  IF ipData.count >= effectiveMaxRequests(priority)
        THEN [admitted |-> FALSE,
              counts |-> [counts EXCEPT ![clientIp] = ipData],
              retryAfter |-> CeilSeconds(ipData.resetTime - t)]
        ELSE [admitted |-> TRUE,
              counts |-> [counts EXCEPT ![clientIp] = [ipData EXCEPT !.count = @ + 1]],
              retryAfter |-> 0]

allowedMethods == {"GET", "POST", "PUT", "PATCH", "DELETE", "OPTIONS"}
StateChanging == {"POST", "PUT", "PATCH", "DELETE"}

\* The breaker a request finds for its endpoint, and what the admission
\* makes of it: an open breaker whose period has not elapsed rejects, an
\* open breaker whose period has elapsed becomes half-open.  openUntil is 0
\* where the code has null.
found(breaker) ==
    IF breaker = NoBreaker
    THEN [state |-> "closed", failureCount |-> 0, successCount |-> 0, openUntil |-> 0]
    ELSE breaker

rejectsAtTheEnd(circuitBreaker, t) ==
    /\ circuitBreaker.state = "open"
    /\ circuitBreaker.openUntil # 0
    /\ t <= circuitBreaker.openUntil

rejects(circuitBreaker, t) ==
    /\ circuitBreaker.state = "open"
    /\ circuitBreaker.openUntil # 0
    /\ t < circuitBreaker.openUntil

admit(circuitBreaker) ==
    IF circuitBreaker.state = "open"
    THEN [circuitBreaker EXCEPT !.state = "half-open", !.successCount = 0]
    ELSE circuitBreaker

\* One run of the wrapper of res.end, or of the wrapper of res.json, with
\* res.statusCode = statusCode at time t.
track(circuitBreaker, statusCode, t) ==
    IF statusCode >= 500
    THEN LET failed == [circuitBreaker EXCEPT !.failureCount = @ + 1]
         IN  IF failed.state = "half-open" \/ failed.failureCount >= failureThreshold
             THEN [failed EXCEPT !.state = "open", !.openUntil = t + openDuration]
             ELSE failed
    ELSE LET passed == [circuitBreaker EXCEPT !.successCount = @ + 1]
         IN  IF passed.state = "half-open" /\ passed.successCount >= successThreshold
             THEN [passed EXCEPT !.state = "closed", !.failureCount = 0,
                                 !.successCount = 0]
             ELSE IF passed.state = "closed"
                  THEN [passed EXCEPT !.failureCount = 0]
                  ELSE passed

\* A response sent through the wrapped res: res.json(body) runs the wrapper
\* of res.json, whose originalJson is the json of Express, which ends in
\* this.send(body) and this.end(chunk) and so runs the wrapper of res.end
\* as well; res.send() and res.end() run the wrapper of res.end alone.
sent(circuitBreaker, via, statusCode, t) ==
    IF via = "json"
    THEN track(track(circuitBreaker, statusCode, t), statusCode, t)
    ELSE track(circuitBreaker, statusCode, t)

\* what a request came to: the stage that ended it, the response, whether
\* next() was called, what was thrown, the state of the breaker when the
\* request left the admission, and the breaker of its endpoint afterwards
Ended(stage, status, retryAfter, called, err, entered, breaker) ==
    [stage |-> stage, status |-> status, retryAfter |-> retryAfter, next |-> called,
     err |-> err, entered |-> entered, breaker |-> breaker]

ReferenceError == "ReferenceError"

\* The stages after the rate limiting, for a request the limiter counted;
\* breaker is the stored breaker of its endpoint, reply the answer of the
\* handler: [via, status].
afterLimit(req, breaker, reply, t) ==
    IF req.big THEN Ended("size", 413, 0, FALSE, NoError, "", breaker)
    ELSE IF req.method \notin allowedMethods
    THEN Ended("method", 405, 0, FALSE, NoError, "", breaker)
    ELSE IF ~IsApi(req.path)
    THEN Ended("handler", reply.status, 0, TRUE, NoError, "", breaker)
    ELSE IF rejects(found(breaker), t)
    THEN Ended("breaker", 503, CeilSeconds(found(breaker).openUntil - t), FALSE, NoError,
               "open", breaker)
    ELSE LET circuitBreaker == admit(found(breaker))
         IN  IF req.method \in StateChanging /\ req.key # ""
             \* idempotencyKeys is declared nowhere: reading it throws, and
             \* the error handler of the server answers 500 with res.json
             THEN Ended("idempotency", 500, 0, FALSE, ReferenceError,
                        circuitBreaker.state, sent(circuitBreaker, "json", 500, t))
             ELSE IF ~req.agent
             THEN Ended("agent", 400, 0, FALSE, NoError, circuitBreaker.state,
                        sent(circuitBreaker, "json", 400, t))
             ELSE Ended("handler", reply.status, 0, TRUE, NoError, circuitBreaker.state,
                        sent(circuitBreaker, reply.via, reply.status, t))

\* loggingMiddleware, from the lists of addresses to next()
loggingMiddleware(req, breaker, reply, t) ==
    IF req.ip \in ipBlacklist \/ (ipWhitelist # {} /\ req.ip \notin ipWhitelist)
    THEN Ended("address", 403, 0, FALSE, NoError, "", breaker)
    ELSE IF ~rateLimit(requestCounts, req.ip, priorityOf(req), t).admitted
    THEN Ended("limiter", 429,
               rateLimit(requestCounts, req.ip, priorityOf(req), t).retryAfter,
               FALSE, NoError, "", breaker)
    ELSE afterLimit(req, breaker, reply, t)

\* One request, handled to its response.
Request(req, reply) ==
    /\ svc = GateSvc
    /\ \E e \in {<<req.method, req.path>>} :
       \E out \in {loggingMiddleware(req, IF e \in Endpoints THEN circuitBreakers[e]
                                          ELSE NoBreaker, reply, now)} :
          /\ requestCounts' =
                IF out.stage = "address" THEN requestCounts
                ELSE rateLimit(requestCounts, req.ip, priorityOf(req), now).counts
          /\ circuitBreakers' =
                IF e \in Endpoints THEN [circuitBreakers EXCEPT ![e] = out.breaker]
                ELSE circuitBreakers
          /\ admittedAt' =
                IF out.stage \notin {"address", "limiter"}
                THEN [admittedAt EXCEPT ![req.ip][now] = @ + 1]
                ELSE admittedAt
          /\ inRow' =
                IF /\ e \in Endpoints
                   /\ out.stage \in {"idempotency", "agent", "handler"}
                THEN [inRow EXCEPT ![e] = IF out.status >= 500
                                          THEN MinOf(@ + 1, failureThreshold)
                                          ELSE 0]
                ELSE inRow
          /\ openedAt' =
                IF /\ e \in Endpoints
                   /\ out.entered \in {"closed", "half-open"}
                   /\ out.breaker.state = "open"
                THEN [openedAt EXCEPT ![e] = now]
                ELSE openedAt
          /\ usedKeys' =
                IF out.stage \in {"idempotency", "agent", "handler"}
                   /\ IsApi(req.path) /\ req.method \in StateChanging /\ req.key # ""
                THEN usedKeys \cup {req.key}
                ELSE usedKeys
          /\ res' = [status |-> out.status, error |-> "",
                     body |-> IF out.stage \in {"limiter", "breaker"}
                              THEN <<[retryAfter |-> out.retryAfter]>>
                              ELSE <<>>]
          /\ last' = [op |-> "loggingMiddleware", err |-> out.err, msg |-> "",
                      args |-> req, next |-> out.next, stage |-> out.stage,
                      entered |-> out.entered]
    /\ UNCHANGED <<svc, now, held, result, itemVars, histVars, userVars, productVars,
                   orderVars, legacyItems, reviewVars>>

\* Time passes between two requests; the history lets go of the requests
\* that are a minute old.
Elapse(t) ==
    /\ svc = GateSvc
    /\ t > now
    /\ now' = t
    /\ admittedAt' = [ip \in ClientIps |->
                         [u \in Instants |-> IF u > t - rateLimitWindow
                                             THEN admittedAt[ip][u]
                                             ELSE 0]]
    /\ UNCHANGED <<svc, requestCounts, circuitBreakers, inRow, openedAt, usedKeys, last,
                   held, res, result, itemVars, histVars, userVars, productVars,
                   orderVars, legacyItems, reviewVars>>

\* the server once the middleware module is loaded: no entity is stored
InitGate ==
    /\ svc = GateSvc
    /\ now = 0
    /\ last = [op |-> "init", err |-> NoError, msg |-> ""]
    /\ items = <<>> /\ itemsNextId = 1 /\ allocated = 0 /\ maxAssigned = 0
    /\ idReused = FALSE
    /\ gone = {}
    /\ users = <<>> /\ usersNextId = 1
    /\ products = <<>> /\ productsNextId = 1
    /\ orders = <<>> /\ ordersNextId = 1
    /\ legacyItems = <<>>
    /\ reviews = <<>> /\ reviewsNextId = 1
    /\ held = NothingHeld
    /\ res = NoResponse
    /\ result = NoResult
    /\ AtLoad

---------------------------------------------------------------------------
(* The rate limiting *)

\* the requests a second, quiet client sends in one behaviour
MaxQuiet == 1

Busy == "10.0.0.1"
Quiet == "10.0.0.2"

Plain(ip) ==
    [ip |-> ip, method |-> "GET", path |-> "/", priority |-> "", big |-> FALSE,
     agent |-> TRUE, key |-> ""]

\* an upload above the size limit, refused with 413 once the limiter counted it
Upload(ip, priority) ==
    [ip |-> ip, method |-> "POST", path |-> ApiPath, priority |-> priority, big |-> TRUE,
     agent |-> TRUE, key |-> ""]

LimiterRequests ==
    {Plain(ip) : ip \in ClientIps} \cup {Upload(Busy, priority) : priority \in {"CRITICAL", "Low"}}

JsonOk == [via |-> "json", status |-> 200]

NextLimiter ==
    \/ \E req \in LimiterRequests :
          /\ req.ip = Quiet => requestCounts[Quiet].count < MaxQuiet
          /\ Request(req, JsonOk)
    \/ \E t \in {rateLimitWindow} : Elapse(t)

SpecLimiter == InitGate /\ [][NextLimiter]_vars

RECURSIVE SumOver(_, _)
SumOver(f, S) ==
    IF S = {} THEN 0
    ELSE LET u == CHOOSE v \in S : TRUE IN f[u] + SumOver(f, S \ {u})

\* the requests of ip that passed the limiter less than a minute before t
Recent(history, ip, t) ==
    SumOver(history[ip], {u \in Instants : u <= t /\ u > t - rateLimitWindow})

\* C34: no more than 100 requests of one client IP pass the limiter within
\* one minute; a request that comes when 100 have passed is answered 429
\* with a positive retryAfter and next() is not called; and a request
\* leaves the entries of the other clients alone.
C34_AtMostHundredPerMinutePerIp ==
    [][(now' = now /\ last'.op = "loggingMiddleware") =>
          /\ Recent(admittedAt', last'.args.ip, now') <= maxRequests
          /\ Recent(admittedAt, last'.args.ip, now) >= maxRequests =>
                /\ last'.stage = "limiter"
                /\ res'.status = 429
          /\ last'.stage = "limiter" =>
                /\ res'.body[1].retryAfter > 0
                /\ ~last'.next
          /\ \A other \in ClientIps \ {last'.args.ip} :
                requestCounts'[other] = requestCounts[other]]_vars

---------------------------------------------------------------------------
(* The circuit breaker and the idempotency keys *)

\* the requests one client sends between two resets of its counter
MaxCalls == 6

Order(agent, key) ==
    [ip |-> Busy, method |-> "POST", path |-> ApiPath, priority |-> "", big |-> FALSE,
     agent |-> agent, key |-> key]

GateRequests ==
    {Order(TRUE, ""), Order(FALSE, ""), Order(TRUE, "key-1"), Upload(Busy, ""), Plain(Busy)}

\* what the controllers send: res.json(...), res.status(500).json(...) from a
\* catch block, res.status(204).send()
Replies == {JsonOk, [via |-> "json", status |-> 500], [via |-> "send", status |-> 204]}

NextGate ==
    \/ \E req \in GateRequests, reply \in Replies :
          /\ requestCounts[req.ip].count < MaxCalls
          /\ Request(req, reply)
    \/ \E t \in {openDuration \div 2, openDuration, openDuration + openDuration \div 2} :
          Elapse(t)

SpecGate == InitGate /\ [][NextGate]_vars

\* the endpoint of the request just handled
EndpointOf(req) == <<req.method, req.path>>

\* a step that handles a request to an endpoint with a breaker
OnEndpoint == now' = now /\ last'.op = "loggingMiddleware" /\ EndpointOf(last'.args) \in Endpoints

\* the breaker is open and 60 seconds have not passed since it opened
StillOpen(e) == circuitBreakers[e].state = "open" /\ now < openedAt[e] + openDuration
OpenElapsed(e) == circuitBreakers[e].state = "open" /\ now >= openedAt[e] + openDuration

BeforeBreaker == {"address", "limiter", "size", "method"}

C36_BreakerCountsEachResponseOnce ==
    [][(OnEndpoint /\ last'.stage \notin BeforeBreaker /\ last'.stage # "breaker") =>
          \E e \in {EndpointOf(last'.args)} :
             /\ circuitBreakers[e].state \in {"none", "closed"} =>
                   (circuitBreakers'[e].state = "open") = (inRow'[e] >= failureThreshold)
             /\ (last'.entered = "half-open" /\ res'.status >= 500) =>
                   circuitBreakers'[e].state = "open"
             /\ (OpenElapsed(e) /\ res'.status < 500) =>
                   circuitBreakers'[e].state = "half-open"
             /\ res'.status >= 500 =>
                   circuitBreakers'[e].failureCount = circuitBreakers[e].failureCount + 1]_vars

\* C37: a POST, PUT, PATCH or DELETE request to the API that carries an
\* idempotency key an earlier request carried is answered from the stored
\* response and next() is not called; one that carries a fresh key is
\* handled as a request without a key is: nothing is thrown, and next() is
\* called when no later stage answers it.
C37_IdempotencyKeyReplaysOrProceeds ==
    [][(/\ OnEndpoint
        /\ last'.stage \notin BeforeBreaker /\ last'.stage # "breaker"
        /\ last'.args.method \in StateChanging
        /\ last'.args.key # "") =>
          /\ last'.err = NoError
          /\ last'.args.key \in usedKeys => ~last'.next
          /\ last'.args.key \notin usedKeys => last'.next = last'.args.agent]_vars

===========================================================================
